---------------------------- MODULE Spec2Model ----------------------------
(***************************************************************************)
(* Weighted road network, shortest-path routing and sub-line filtering of  *)
(* modelo_reset (src/src/modelo_reset/core/network_design.py and ag.py).   *)
(*                                                                         *)
(* Units.  Coordinates, distances and edge weights are lengths in          *)
(* centimetres (the source works in metres of a projected CRS, as floats): *)
(* 1000 m = 100000, the weight floor 0.1 m = 10.  Discounts are fractions  *)
(* with the fixed denominator Um = 2000000, which represents every         *)
(* discount of the source exactly for whole-centimetre distances.          *)
(* Products are rounded down to the unit.                                  *)
(***************************************************************************)
EXTENDS Integers, Naturals, Sequences, FiniteSets, TLC

(***************************************************************************)
(* Arithmetic helpers                                                      *)
(***************************************************************************)
Max(a, b) == IF a >= b THEN a ELSE b

Min(a, b) == IF a <= b THEN a ELSE b

Abs(a) == IF a >= 0 THEN a ELSE 0 - a

\* The fraction 1.0 on the discount scale.
Um == 2000 * 1000

\* floor(a * f / Um) for a fraction 0 <= f <= Um, without leaving 32 bits
\* (Um = 2000 * 1000; exact because floor((x + floor(y)) / n) = floor((x + y) / n)).
MulFrac(a, f) == (a * (f \div 1000) + (a * (f % 1000)) \div 1000) \div 2000

\* Largest r in lo..hi with (r - a) * (r + a) <= b * b, i.e. r * r <= a * a + b * b.
RECURSIVE HypotSearch(_, _, _, _)
HypotSearch(a, b, lo, hi) ==
    IF lo >= hi THEN lo
    ELSE LET mid == (lo + hi + 1) \div 2
         IN  IF (mid - a) <= (b * b) \div (mid + a)
             THEN HypotSearch(a, b, mid, hi)
             ELSE HypotSearch(a, b, lo, mid - 1)

\* Euclidean length of the vector (dx, dy), rounded down to the centimetre.
Hypot(dx, dy) ==
    LET a == Max(Abs(dx), Abs(dy))
        b == Min(Abs(dx), Abs(dy))
    IN  IF b = 0 THEN a ELSE HypotSearch(a, b, a, a + b)

\* Point.distance(Point)
distance(p, q) == Hypot(p[1] - q[1], p[2] - q[2])

\* LineString([p, q]).interpolate(0.5, normalized=True): the midpoint.
interpolate_meio(p, q) == <<(p[1] + q[1]) \div 2, (p[2] + q[2]) \div 2>>

\* Lexicographic order of coordinates.
CoordMenor(p, q) == p[1] < q[1] \/ (p[1] = q[1] /\ p[2] < q[2])

RECURSIVE OrdenarPontos(_)
OrdenarPontos(S) ==
    IF S = {} THEN <<>>
    ELSE LET m == CHOOSE p \in S : \A q \in S \ {p} : CoordMenor(p, q)
         IN  <<m>> \o OrdenarPontos(S \ {m})

\* GeoSeries.union_all() of point geometries wrapped in MultiPoint(...):
\* the set union of the points, each distinct coordinate once, in the
\* geometry engine's coordinate order.
union_all(pontos) == OrdenarPontos({pontos[i] : i \in 1..Len(pontos)})

\* list.index(min(list)): the first position holding the minimum.
IndexOfMin(dists) ==
    CHOOSE i \in 1..Len(dists) :
        /\ \A j \in 1..Len(dists) : dists[i] <= dists[j]
        /\ \A j \in 1..(i - 1) : dists[j] > dists[i]

(***************************************************************************)
(* AttractivenessModel: network_design.py, calcular_peso_atrativo          *)
(***************************************************************************)
\* 1000 m, and 0.4 in tenths.
RaioArticulacao == 100000

MaxDescontoArticulacao == 4

\* The floor of a weight, 0.1 m.
PesoMinimo == 10

\* max(0, 1 - distancia / raio) * max_desconto as a fraction of Um;
\* max_desconto10 is the cap in tenths (0.5 -> 5).
desconto_polo(distancia, raio_influencia, max_desconto10) ==
    Max(0, raio_influencia - distancia) * ((max_desconto10 * Um) \div (10 * raio_influencia))

\* desconto_ponto_articulacao without the max(0, ...).
desconto_ponto_articulacao_sem_max(distancia) ==
    (RaioArticulacao - distancia) * ((MaxDescontoArticulacao * Um) \div (10 * RaioArticulacao))

\* max(0, 1 - distancia / 1000) * 0.4 as a fraction of Um.
desconto_ponto_articulacao(distancia) ==
    Max(0, RaioArticulacao - distancia) * ((MaxDescontoArticulacao * Um) \div (10 * RaioArticulacao))

\* The if/elif chain on tipo_bairro: (raio_influencia, max_desconto in tenths).
raio_influencia(tipo_bairro) ==
    IF tipo_bairro = "Emergente" THEN 200000
    ELSE IF tipo_bairro = "Consolidado" THEN 150000
    ELSE IF tipo_bairro = "Planejado" THEN 100000
    ELSE 100

max_desconto(tipo_bairro) ==
    IF tipo_bairro = "Emergente" THEN 5
    ELSE IF tipo_bairro = "Consolidado" THEN 3
    ELSE IF tipo_bairro = "Planejado" THEN 1
    ELSE 0

\* desconto_total with the product added instead of subtracted.
desconto_total_mais_produto(desconto_articulacao, desconto_polo_) ==
    desconto_articulacao + desconto_polo_ + MulFrac(desconto_articulacao, desconto_polo_)

\* desconto_articulacao + desconto_polo - desconto_articulacao * desconto_polo
desconto_total(desconto_articulacao, desconto_polo_) ==
    desconto_articulacao + desconto_polo_ - MulFrac(desconto_articulacao, desconto_polo_)

\* calcular_peso_atrativo returning peso_final without the floor.
calcular_peso_atrativo_sem_piso(ponto_articulacao, ponto_aresta, centroid_bairro, peso_original, tipo_bairro) ==
    LET distancia_articulacao == distance(ponto_articulacao, ponto_aresta)
        desconto_articulacao == desconto_ponto_articulacao(distancia_articulacao)
        distancia_polo == distance(centroid_bairro, ponto_aresta)
        desconto_polo_ == desconto_polo(distancia_polo, raio_influencia(tipo_bairro), max_desconto(tipo_bairro))
        total == desconto_total(desconto_articulacao, desconto_polo_)
    IN  MulFrac(peso_original, Um - total)

calcular_peso_atrativo(ponto_articulacao, ponto_aresta, centroid_bairro, peso_original, tipo_bairro) ==
    LET distancia_articulacao == distance(ponto_articulacao, ponto_aresta)
        desconto_articulacao == desconto_ponto_articulacao(distancia_articulacao)
        distancia_polo == distance(centroid_bairro, ponto_aresta)
        desconto_polo_ == desconto_polo(distancia_polo, raio_influencia(tipo_bairro), max_desconto(tipo_bairro))
        total == desconto_total(desconto_articulacao, desconto_polo_)
        peso_final == MulFrac(peso_original, Um - total)
    IN  Max(peso_final, PesoMinimo)

(***************************************************************************)
(* NetworkBuilder: criacao_arestas, criar_grafo_ponderado                  *)
(***************************************************************************)
\* nx.MultiDiGraph: nodes and edges in insertion order; parallel edges kept.
GrafoVazio == [nodes |-> <<>>, edges |-> <<>>]

NodeSet(g) == {g.nodes[i] : i \in 1..Len(g.nodes)}

AddNode(nodes, n) == IF \E i \in 1..Len(nodes) : nodes[i] = n THEN nodes ELSE Append(nodes, n)

\* grafo.add_edge(u, v, **atributos)
add_edge(g, u, v, atributos) ==
    [nodes |-> AddNode(AddNode(g.nodes, u), v),
     edges |-> Append(g.edges, [u |-> u, v |-> v,
                                weight |-> atributos.weight,
                                original_weight |-> atributos.original_weight,
                                via_id |-> atributos.via_id])]

\* The attributes criacao_arestas computes for the segment inicio -> fim.
atributos_segmento(inicio, fim, todos_os_pontos_articulacao, centroid_bairros, lista_tipos_bairros, via_id_principal) ==
    LET peso_original_segmento == distance(inicio, fim)
        ponto_medio_segmento == interpolate_meio(inicio, fim)
        dists_pontos_articulacao ==
            [k \in 1..Len(todos_os_pontos_articulacao) |->
                distance(todos_os_pontos_articulacao[k], ponto_medio_segmento)]
        idx_ponto_articulacao_mais_proximo == IndexOfMin(dists_pontos_articulacao)
        dists_bairro ==
            [k \in 1..Len(centroid_bairros) |-> distance(centroid_bairros[k], ponto_medio_segmento)]
        idx_bairro_mais_proximo == IndexOfMin(dists_bairro)
        centroid_mais_proximo == centroid_bairros[idx_bairro_mais_proximo]
        ponto_articulacao_mais_proximo == todos_os_pontos_articulacao[idx_ponto_articulacao_mais_proximo]
        tipo_bairro_atual == lista_tipos_bairros[idx_bairro_mais_proximo]
    IN  [weight |-> calcular_peso_atrativo(ponto_articulacao_mais_proximo, ponto_medio_segmento,
                                           centroid_mais_proximo, peso_original_segmento, tipo_bairro_atual),
         original_weight |-> peso_original_segmento,
         via_id |-> via_id_principal]

\* arestas_por_direcao adding only the digitized direction of a bidirectional road.
arestas_por_direcao_so_ida(g, inicio, fim, atributos, direcao) ==
    IF direcao = 0 THEN add_edge(g, inicio, fim, atributos)
    ELSE IF direcao = 1 THEN add_edge(g, inicio, fim, atributos)
    ELSE IF direcao = -1 THEN add_edge(g, fim, inicio, atributos)
    ELSE g

\* arestas_por_direcao with the forward and reverse codes exchanged.
arestas_por_direcao_trocada(g, inicio, fim, atributos, direcao) ==
    IF direcao = 0 THEN add_edge(add_edge(g, inicio, fim, atributos), fim, inicio, atributos)
    ELSE IF direcao = 1 THEN add_edge(g, fim, inicio, atributos)
    ELSE IF direcao = -1 THEN add_edge(g, inicio, fim, atributos)
    ELSE g

\* The edges one elementary segment adds, by direction code.
arestas_por_direcao(g, inicio, fim, atributos, direcao) ==
    IF direcao = 0 THEN add_edge(add_edge(g, inicio, fim, atributos), fim, inicio, atributos)
    ELSE IF direcao = 1 THEN add_edge(g, inicio, fim, atributos)
    ELSE IF direcao = -1 THEN add_edge(g, fim, inicio, atributos)
    ELSE g

\* criacao_arestas: the loop over the consecutive coordinate pairs of linha, from pair i on.
RECURSIVE criacao_arestas(_, _, _, _, _, _, _, _)
criacao_arestas(g, linha, i, todos_os_pontos_articulacao, centroid_bairros, lista_tipos_bairros, via_id_principal, direcao) ==
    IF i > Len(linha) - 1 THEN g
    ELSE LET ponto_inicio_segmento == linha[i]
             ponto_fim_segmento == linha[i + 1]
             g2 == IF distance(ponto_inicio_segmento, ponto_fim_segmento) = 0 THEN g
                   ELSE arestas_por_direcao(g, ponto_inicio_segmento, ponto_fim_segmento,
                            atributos_segmento(ponto_inicio_segmento, ponto_fim_segmento,
                                todos_os_pontos_articulacao, centroid_bairros,
                                lista_tipos_bairros, via_id_principal),
                            direcao)
         IN  criacao_arestas(g2, linha, i + 1, todos_os_pontos_articulacao, centroid_bairros,
                             lista_tipos_bairros, via_id_principal, direcao)

\* gdf_bairros[gdf_bairros["tipo_polo"].isin(["Emergente", "Consolidado"])]
bairros_relevantes(bairros) ==
    SelectSeq(bairros, LAMBDA b : b.tipo_polo \in {"Emergente", "Consolidado"})

\* MultiPoint(bairros_relevantes.centroid.geometry.union_all())
centroids_bairros(bairros) ==
    LET rel == bairros_relevantes(bairros)
    IN  union_all([k \in 1..Len(rel) |-> rel[k].centroid])

\* bairros_relevantes["tipo_polo"].tolist()
lista_tipos_bairros(bairros) ==
    LET rel == bairros_relevantes(bairros)
    IN  [k \in 1..Len(rel) |-> rel[k].tipo_polo]

(***************************************************************************)
(* Router: nx.dijkstra_path as _calcular_rota_individual calls it          *)
(***************************************************************************)
\* G._adj[v]: the successors of v in the order their first edge was added.
RECURSIVE SuccDe(_, _, _)
SuccDe(edges, v, acc) ==
    IF edges = <<>> THEN acc
    ELSE LET e == Head(edges)
         IN  SuccDe(Tail(edges), v, IF e.u = v THEN AddNode(acc, e.v) ELSE acc)

G_succ(g, v) == SuccDe(g.edges, v, <<>>)

\* CustoAresta reading 'original_weight' instead of 'weight'.
CustoAresta_original(g, v, u) ==
    LET ws == {g.edges[k].original_weight : k \in {j \in 1..Len(g.edges) : g.edges[j].u = v /\ g.edges[j].v = u}}
    IN  CHOOSE w \in ws : \A x \in ws : w <= x

\* weight="weight" on a multigraph: the least 'weight' among the parallel edges v -> u.
CustoAresta(g, v, u) ==
    LET ws == {g.edges[k].weight : k \in {j \in 1..Len(g.edges) : g.edges[j].u = v /\ g.edges[j].v = u}}
    IN  CHOOSE w \in ws : \A x \in ws : w <= x

\* heappop: the fringe entry <<distance, counter, node>> least in (distance, counter).
HeapMin(fringe) ==
    CHOOSE t \in fringe : \A o \in fringe : t[1] < o[1] \/ (t[1] = o[1] /\ t[2] <= o[2])

\* The inner loop of _dijkstra_multisource over the successors of v.
RECURSIVE Relaxar(_, _, _, _)
Relaxar(g, v, us, st) ==
    IF us = <<>> THEN st
    ELSE LET u == Head(us)
             vu_dist == st.dist[v] + CustoAresta(g, v, u)
             st2 == IF u \in DOMAIN st.dist THEN st
                    ELSE IF u \notin DOMAIN st.seen \/ vu_dist < st.seen[u]
                         THEN [st EXCEPT !.seen = (u :> vu_dist) @@ st.seen,
                                         !.fringe = st.fringe \cup {<<vu_dist, st.c, u>>},
                                         !.c = st.c + 1,
                                         !.paths = (u :> Append(st.paths[v], u)) @@ st.paths]
                         ELSE st
         IN  Relaxar(g, v, Tail(us), st2)

\* The while loop of _dijkstra_multisource.
RECURSIVE DijkstraLoop(_, _, _)
DijkstraLoop(g, target, st) ==
    IF st.fringe = {} THEN st
    ELSE LET t == HeapMin(st.fringe)
             d == t[1]
             v == t[3]
             st1 == [st EXCEPT !.fringe = st.fringe \ {t}]
         IN  IF v \in DOMAIN st1.dist THEN DijkstraLoop(g, target, st1)
             ELSE LET st2 == [st1 EXCEPT !.dist = (v :> d) @@ st1.dist]
                  IN  IF v = target THEN st2
                      ELSE DijkstraLoop(g, target, Relaxar(g, v, G_succ(g, v), st2))

\* nx.dijkstra_path(grafo, source, target, weight="weight"): the node list,
\* or the exception networkx raises when the target was never reached.
dijkstra_path(g, source, target) ==
    IF source \notin NodeSet(g) THEN [raised |-> "NodeNotFound", path |-> <<>>]
    ELSE IF source = target THEN [raised |-> "", path |-> <<source>>]
    ELSE LET st0 == [dist |-> <<>>, seen |-> (source :> 0), fringe |-> {<<0, 0, source>>},
                     c |-> 1, paths |-> (source :> <<source>>)]
             st == DijkstraLoop(g, target, st0)
         IN  IF target \in DOMAIN st.dist
             THEN [raised |-> "", path |-> st.paths[target]]
             ELSE [raised |-> "NetworkXNoPath", path |-> <<>>]

\* None, the absent route.
Nenhuma == <<>>

\* _calcular_rota_individual without its except clause.
calcular_rota_individual_sem_except(g, no_origem, no_destino, sentido) ==
    LET source == IF sentido = "IDA" THEN no_origem ELSE no_destino
        target == IF sentido = "IDA" THEN no_destino ELSE no_origem
        r == dijkstra_path(g, source, target)
    IN  IF r.raised # "" THEN [raised |-> r.raised, rota |-> Nenhuma]
        ELSE IF Len(r.path) < 2 THEN [raised |-> "", rota |-> Nenhuma]
        ELSE [raised |-> "", rota |-> r.path]

\* _calcular_rota_individual without the test len(caminho_nos) < 2.
calcular_rota_individual_sem_trivial(g, no_origem, no_destino, sentido) ==
    LET source == IF sentido = "IDA" THEN no_origem ELSE no_destino
        target == IF sentido = "IDA" THEN no_destino ELSE no_origem
        r == dijkstra_path(g, source, target)
    IN  IF r.raised = "NetworkXNoPath" THEN [raised |-> "", rota |-> Nenhuma]
        ELSE IF r.raised # "" THEN [raised |-> r.raised, rota |-> Nenhuma]
        ELSE [raised |-> "", rota |-> r.path]

\* _calcular_rota_individual (network_design.py): [raised, rota], rota the
\* LineString over the path's nodes or None; only NetworkXNoPath is caught.
calcular_rota_individual(g, no_origem, no_destino, sentido) ==
    LET source == IF sentido = "IDA" THEN no_origem ELSE no_destino
        target == IF sentido = "IDA" THEN no_destino ELSE no_origem
        r == dijkstra_path(g, source, target)
    IN  IF r.raised = "NetworkXNoPath" THEN [raised |-> "", rota |-> Nenhuma]
        ELSE IF r.raised # "" THEN [raised |-> r.raised, rota |-> Nenhuma]
        ELSE IF Len(r.path) < 2 THEN [raised |-> "", rota |-> Nenhuma]
        ELSE [raised |-> "", rota |-> r.path]

\* OtimizadorRotas._calcular_rota_individual (ag.py): every exception is caught.
OtimizadorRotas_calcular_rota_individual(g, no_origem, no_destino, sentido) ==
    LET source == IF sentido = "IDA" THEN no_origem ELSE no_destino
        target == IF sentido = "IDA" THEN no_destino ELSE no_origem
        r == dijkstra_path(g, source, target)
    IN  IF r.raised = "NetworkXNoPath" THEN [raised |-> "", rota |-> Nenhuma]
        ELSE IF r.raised # "" THEN [raised |-> "", rota |-> Nenhuma]
        ELSE IF Len(r.path) < 2 THEN [raised |-> "", rota |-> Nenhuma]
        ELSE [raised |-> "", rota |-> r.path]

\* A lookup that answers the first node of the MultiPoint.
encontrar_no_mais_proximo_o_primeiro(ponto, nos_grafo_multipoint) ==
    nos_grafo_multipoint[1]

\* encontrar_no_mais_proximo: the node of the MultiPoint nearest to ponto.
encontrar_no_mais_proximo(ponto, nos_grafo_multipoint) ==
    nos_grafo_multipoint[IndexOfMin([k \in 1..Len(nos_grafo_multipoint) |->
                                        distance(nos_grafo_multipoint[k], ponto)])]

\* A call encontrar_no_mais_proximo(ponto, nos_grafo_multipoint): [raised,
\* no]. nearest_points raises ValueError when the MultiPoint is empty or
\* None (<<>>).
no_mais_proximo_ou_erro(ponto, nos_grafo_multipoint) ==
    IF Len(nos_grafo_multipoint) = 0 THEN [raised |-> "ValueError", no |-> <<>>]
    ELSE [raised |-> "", no |-> encontrar_no_mais_proximo(ponto, nos_grafo_multipoint)]

(***************************************************************************)
(* SublineFilter: filtrar_sublinhas                                        *)
(***************************************************************************)
RECURSIVE Mdc(_, _)
Mdc(a, b) == IF b = 0 THEN a ELSE Mdc(b, a % b)

\* The direction of a non-zero vector, reduced and with a fixed sign.
Direcao(dx, dy) ==
    LET g == Mdc(Abs(dx), Abs(dy))
        rx == dx \div g
        ry == dy \div g
    IN  IF rx < 0 \/ (rx = 0 /\ ry < 0) THEN <<0 - rx, 0 - ry>> ELSE <<rx, ry>>

\* r lies on the line through p and q (p # q).
NaReta(p, q, r) == r = p \/ Direcao(r[1] - p[1], r[2] - p[2]) = Direcao(q[1] - p[1], q[2] - p[2])

\* The position of a point of the line through p and q along that line.
Param(p, q, r) == IF p[1] # q[1] THEN r[1] ELSE r[2]

\* The segment p-q lies on the polyline outra: the pieces of outra on the
\* line through p and q cover it without a gap.
SegmentoCoberto(p, q, outra) ==
    LET lo == Min(Param(p, q, p), Param(p, q, q))
        hi == Max(Param(p, q, p), Param(p, q, q))
        ivs == {<<Min(Param(p, q, outra[k]), Param(p, q, outra[k + 1])),
                  Max(Param(p, q, outra[k]), Param(p, q, outra[k + 1]))>> :
                    k \in {j \in 1..(Len(outra) - 1) :
                            /\ outra[j] # outra[j + 1]
                            /\ NaReta(p, q, outra[j])
                            /\ NaReta(p, q, outra[j + 1])}}
        cortes == {lo} \cup {iv[2] : iv \in {x \in ivs : lo <= x[2] /\ x[2] < hi}}
    IN  \A c \in cortes : \E iv \in ivs : iv[1] <= c /\ c < iv[2]

\* predicate="within" against the buffered geometry: linha within
\* outra.buffer(1e-2).  Coordinates are vertices spaced far wider than the
\* tolerance, where this is containment of linha in outra.
within_buffer(linha, outra) ==
    \A k \in 1..(Len(linha) - 1) :
        linha[k] = linha[k + 1] \/ SegmentoCoberto(linha[k], linha[k + 1], outra)

\* The pairs (index, index_right) of gpd.sjoin(gdf, gdf_com_buffer, how="left", predicate="within").
gdf_sjoined(gdf) ==
    {<<i, j>> \in (1..Len(gdf)) \X (1..Len(gdf)) : within_buffer(gdf[i].geometry, gdf[j].geometry)}

\* indices_das_sublinhas without the test index != index_right.
indices_das_sublinhas_com_proprio(gdf) ==
    {ij[1] : ij \in gdf_sjoined(gdf)}

\* linhas_contidas.index.unique(): the rows matched with a row of another index.
indices_das_sublinhas(gdf) ==
    {ij[1] : ij \in {x \in gdf_sjoined(gdf) : x[1] # x[2]}}

RECURSIVE Drop(_, _, _)
Drop(gdf, indices, i) ==
    IF i > Len(gdf) THEN <<>>
    ELSE (IF i \in indices THEN <<>> ELSE <<gdf[i]>>) \o Drop(gdf, indices, i + 1)

\* filtrar_sublinhas dropping only the first of the rows it found.
filtrar_sublinhas_so_a_primeira(gdf) ==
    IF gdf = <<>> THEN gdf
    ELSE LET indices == indices_das_sublinhas(gdf)
         IN  Drop(gdf, {i \in indices : \A j \in indices : i <= j}, 1)

\* filtrar_sublinhas(gdf)
filtrar_sublinhas(gdf) ==
    IF gdf = <<>> THEN gdf
    ELSE Drop(gdf, indices_das_sublinhas(gdf), 1)

(***************************************************************************)
(* Batch routing: _obter_ponto_central, encontrar_caminho_minimo           *)
(***************************************************************************)
\* str.strip() on the neighbourhood names of the layers.
strip(nome) ==
    IF nome = " Centro " THEN "Centro"
    ELSE IF nome = "Norte " THEN "Norte"
    ELSE nome

\* The centroid of the union of the (disjoint) neighbourhood polygons: the
\* mean of the centroids weighted by area.
centroid_area_total(bairros) ==
    LET RECURSIVE Soma(_, _)
        Soma(k, f) == IF k > Len(bairros) THEN 0
                      ELSE IF f = 0 THEN bairros[k].area + Soma(k + 1, f)
                      ELSE bairros[k].area * bairros[k].centroid[f] + Soma(k + 1, f)
    IN  <<Soma(1, 1) \div Soma(1, 0), Soma(1, 2) \div Soma(1, 0)>>

\* _obter_ponto_central: [raised, ponto].
obter_ponto_central(bairros, nome_bairro_central) ==
    IF nome_bairro_central # ""
    THEN LET nome_limpo == strip(nome_bairro_central)
             bairro_destino == SelectSeq(bairros, LAMBDA b : strip(b.name) = nome_limpo)
         IN  IF Len(bairro_destino) # 1
             THEN [raised |-> "ValueError", ponto |-> <<>>]
             ELSE [raised |-> "", ponto |-> bairro_destino[1].centroid]
    ELSE [raised |-> "", ponto |-> centroid_area_total(bairros)]

\* The row appended to lista_caminhos for row k (index = k - 1) and its route.
caminho(bairro, k, sentido, geometria_rota) ==
    [geometry |-> geometria_rota,
     id |-> <<k - 1, IF sentido = "IDA" THEN "I" ELSE "V">>,
     bairro_origem |-> bairro.name]

\* The loop skipping the hub only, whatever the geometry of the row.
pula_so_o_centro(bairro, bairro_central_limpo) ==
    bairro_central_limpo # "" /\ strip(bairro.name) = bairro_central_limpo

\* The two tests of the loop of encontrar_caminho_minimo that skip a row.
pula(bairro, bairro_central_limpo) ==
    \/ (bairro_central_limpo # "" /\ strip(bairro.name) = bairro_central_limpo)
    \/ bairro.geom_type \notin {"Polygon", "MultiPolygon"}

\* One pass of the loop of encontrar_caminho_minimo: row k with the outcome r
\* of its _calcular_rota_individual, before the outcome resto of the rows
\* after it.
passo_do_laco(bairro, k, bairro_central_limpo, sentido, r, resto) ==
    IF pula(bairro, bairro_central_limpo) THEN resto
    ELSE IF r.raised # "" THEN [raised |-> r.raised, lista |-> <<>>]
    ELSE IF resto.raised # "" THEN resto
    ELSE IF r.rota = Nenhuma THEN resto
    ELSE [raised |-> "", lista |-> <<caminho(bairro, k, sentido, r.rota)>> \o resto.lista]

\* The loop of encontrar_caminho_minimo over the rows of gdf_bairros, from
\* row k on: [raised, lista], lista the entries appended to lista_caminhos.
RECURSIVE lista_caminhos_de(_, _, _, _, _, _)
lista_caminhos_de(bairros, g, no_central, bairro_central_limpo, sentido, k) ==
    IF k > Len(bairros) THEN [raised |-> "", lista |-> <<>>]
    ELSE passo_do_laco(bairros[k], k, bairro_central_limpo, sentido,
                       calcular_rota_individual(
                           g, encontrar_no_mais_proximo(bairros[k].centroid, g.nodes),
                           no_central, sentido),
                       lista_caminhos_de(bairros, g, no_central, bairro_central_limpo,
                                         sentido, k + 1))

\* The end of encontrar_caminho_minimo, from the outcome l of its loop: the
\* empty layer when no route was found, else filtrar_sublinhas(gdf_rotas).
rotas_do_lote(l) ==
    IF l.raised # "" THEN [raised |-> l.raised, lista |-> <<>>, rotas |-> <<>>]
    ELSE [raised |-> "", lista |-> l.lista,
          rotas |-> IF l.lista = <<>> THEN <<>> ELSE filtrar_sublinhas(l.lista)]

\* encontrar_caminho_minimo past the test of the empty graph, with the
\* outcome central of _obter_ponto_central.
caminhos_ao_centro(bairros, g, central, bairro_central, sentido) ==
    IF central.raised # "" THEN [raised |-> central.raised, lista |-> <<>>, rotas |-> <<>>]
    ELSE rotas_do_lote(
             lista_caminhos_de(bairros, g, encontrar_no_mais_proximo(central.ponto, g.nodes),
                               IF bairro_central # "" THEN strip(bairro_central) ELSE "",
                               sentido, 1))

\* encontrar_caminho_minimo: [raised, lista (lista_caminhos), rotas (the returned layer)].
encontrar_caminho_minimo(bairros, g, bairro_central, sentido) ==
    IF Len(g.nodes) = 0 THEN [raised |-> "", lista |-> <<>>, rotas |-> <<>>]
    ELSE caminhos_ao_centro(bairros, g, obter_ponto_central(bairros, bairro_central),
                            bairro_central, sentido)

(***************************************************************************)
(* RouteSetOptimizer: the route cache of OtimizadorRotas (ag.py)           *)
(***************************************************************************)
\* float("inf"), the distance of a pair without a route.
Inf == 2000000000

\* LineString.length
length(linha) ==
    LET RECURSIVE Comp(_)
        Comp(k) == IF k >= Len(linha) THEN 0 ELSE distance(linha[k], linha[k + 1]) + Comp(k + 1)
    IN  Comp(1)

\* The segment p-q meets the square of half side h centred at c: their
\* bounding boxes overlap and the corners of the square do not all lie
\* strictly on one side of the line through p and q.
segmento_toca_quadrado(p, q, c, h) ==
    /\ Max(p[1], q[1]) >= c[1] - h
    /\ Min(p[1], q[1]) <= c[1] + h
    /\ Max(p[2], q[2]) >= c[2] - h
    /\ Min(p[2], q[2]) <= c[2] + h
    /\ \/ p = q
       \/ LET dir == Direcao(q[1] - p[1], q[2] - p[2])
              lados == {dir[1] * (y - p[2]) - dir[2] * (x - p[1]) :
                          x \in {c[1] - h, c[1] + h}, y \in {c[2] - h, c[2] + h}}
          IN  ~(\A l \in lados : l > 0) /\ ~(\A l \in lados : l < 0)

\* predicate="intersects" between a route and the polygon of a
\* neighbourhood, a square of half side meio_lado around its centroid.
intersects(linha, bairro) ==
    \E k \in 1..(Len(linha) - 1) :
        segmento_toca_quadrado(linha[k], linha[k + 1], bairro.centroid, bairro.meio_lado)

\* set(intersecoes["NM_BAIRRO"].unique()): the names of the neighbourhoods
\* the route meets.
nomes_atendidos(bairros, geom_linha) ==
    {bairros[k].name : k \in {j \in 1..Len(bairros) : intersects(geom_linha, bairros[j])}}

\* The entry _rota_entre_bairros computes for (idx_origem, idx_destino) on a
\* cache miss: [raised, dados].
dados_rota(bairros, g, nos_multipoint, idx_origem, idx_destino) ==
    LET p1 == bairros[idx_origem].centroid
        p2 == bairros[idx_destino].centroid
        no_origem == encontrar_no_mais_proximo(p1, nos_multipoint)
        no_destino == encontrar_no_mais_proximo(p2, nos_multipoint)
        r == OtimizadorRotas_calcular_rota_individual(g, no_origem, no_destino, "IDA")
        geom_linha == r.rota
    IN  IF r.raised # ""
        THEN [raised |-> r.raised, dados |-> [dist |-> Inf, bairros |-> {}, geom |-> Nenhuma]]
        ELSE IF geom_linha = Nenhuma
        THEN [raised |-> "", dados |-> [dist |-> Inf, bairros |-> {}, geom |-> Nenhuma]]
        ELSE [raised |-> "",
              dados |-> [dist |-> length(geom_linha),
                         bairros |-> nomes_atendidos(bairros, geom_linha),
                         geom |-> geom_linha]]

\* What _rota_entre_bairros leaves when it raises: nothing returned.
SemDados == [dist |-> Inf, bairros |-> {}, geom |-> Nenhuma]

\* A key that does not tell (a, b) from (b, a).
chave_sem_ordem(idx_origem, idx_destino) ==
    IF idx_origem <= idx_destino THEN <<idx_origem, idx_destino>> ELSE <<idx_destino, idx_origem>>

\* The key under which _rota_entre_bairros looks up and stores a pair.
chave(idx_origem, idx_destino) ==
    <<idx_origem, idx_destino>>

\* self.cache_rotas = {chave: dados}: the entries stored before are lost.
guardar_so_a_ultima(cache, idx_origem, idx_destino, dados) ==
    (chave(idx_origem, idx_destino) :> dados)

\* self.cache_rotas[chave] = dados
guardar(cache, idx_origem, idx_destino, dados) ==
    (chave(idx_origem, idx_destino) :> dados) @@ cache

\* _rota_entre_bairros storing the entry of a missing route for every pair
\* it computed.
rota_calculada_guarda_sem_rota(cache, idx_origem, idx_destino, r) ==
    IF r.raised # ""
    THEN [raised |-> r.raised, cache |-> cache, dados |-> SemDados]
    ELSE [raised |-> "", cache |-> guardar(cache, idx_origem, idx_destino, SemDados),
          dados |-> r.dados]

\* _rota_entre_bairros past the lookup, with r what dados_rota computed.
rota_calculada(cache, idx_origem, idx_destino, r) ==
    IF r.raised # ""
    THEN [raised |-> r.raised, cache |-> cache, dados |-> SemDados]
    ELSE [raised |-> "", cache |-> guardar(cache, idx_origem, idx_destino, r.dados),
          dados |-> r.dados]

\* _rota_entre_bairros(idx_origem, idx_destino) on the cache it is given:
\* [raised, cache (the cache it leaves), dados (what it returns)].
\* nearest_points(p1, None) raises ValueError when _preparar_grafo built no
\* index.
rota_entre_bairros(cache, bairros, g, nos_multipoint, idx_origem, idx_destino) ==
    IF chave(idx_origem, idx_destino) \in DOMAIN cache
    THEN [raised |-> "", cache |-> cache, dados |-> cache[chave(idx_origem, idx_destino)]]
    ELSE IF nos_multipoint = <<>>
    THEN [raised |-> "ValueError", cache |-> cache, dados |-> SemDados]
    ELSE rota_calculada(cache, idx_origem, idx_destino,
                        dados_rota(bairros, g, nos_multipoint, idx_origem, idx_destino))

(***************************************************************************)
(* RouteSetOptimizer: genes, individuals, mutation and crossover (setup_ga)*)
(***************************************************************************)
\* random.randint(20, 40) and the tests of mutacao_variavel: the least and
\* the most genes of an individual.
TamanhoMinimo == 20

TamanhoMaximo == 40

\* The thresholds 0.33 and 0.66 of mutacao_variavel, in hundredths: r is
\* the hundredth random.random() fell in, 0..99.
LimiarRemover == 33

LimiarAdicionar == 66

Centesimos == 0..99

\* self.indices_bairros: the index of every row of gdf_bairros.
indices_bairros(bairros) == 1..Len(bairros)

\* list(self.bairros_dict.keys()): the indices in the order of the rows.
lista_de_indices(bairros) == [k \in 1..Len(bairros) |-> k]

\* random.sample(population, 2) over a list of n elements: the two distinct
\* positions it picks, in the order drawn.
sample2(n) == {p \in (1..n) \X (1..n) : p[1] # p[2]}

\* A gene whose destination is the element drawn as its origin.
gerar_gene_rota_com_reposicao(indices, posicoes) ==
    <<indices[posicoes[1]], indices[posicoes[1]]>>

\* gerar_gene_rota(): tuple(random.sample(self.indices_bairros, 2)), with
\* posicoes the positions the sample picked.
gerar_gene_rota(indices, posicoes) ==
    <<indices[posicoes[1]], indices[posicoes[2]]>>

\* The values gerar_gene_rota can return.
Genes(bairros) ==
    {gerar_gene_rota(lista_de_indices(bairros), p) : p \in sample2(Len(bairros))}

\* A Python list with the elements f[1], ..., f[Len(f)].
list(f) == SubSeq(f, 1, Len(f))

\* An individual: the list of genes, its fitness.values (<<>> while not
\* valid) and the object it is (clones are new objects).
Individual(genes, fitness, id) == [genes |-> genes, fitness |-> fitness, id |-> id]

\* gerar_individuo with tamanho the outcome of random.randint(20, 40) and
\* sorteio[k] the outcome of the k-th gerar_gene_rota().
gerar_individuo(tamanho, sorteio) == list([k \in 1..tamanho |-> sorteio[k]])

\* del individual[idx], idx counted from 0.
del(individual, idx) ==
    list([k \in 1..(Len(individual) - 1) |->
            IF k <= idx THEN individual[k] ELSE individual[k + 1]])

\* mutacao_variavel that removes a gene whenever r < 0.33.
mutacao_variavel_sem_limite(individual, r, idx, gene) ==
    IF r < LimiarRemover
    THEN del(individual, idx)
    ELSE IF r < LimiarAdicionar /\ Len(individual) < TamanhoMaximo
    THEN Append(individual, gene)
    ELSE [individual EXCEPT ![idx + 1] = gene]

\* mutacao_variavel that alters the first gene whatever idx is.
mutacao_variavel_no_inicio(individual, r, idx, gene) ==
    IF r < LimiarRemover /\ Len(individual) > TamanhoMinimo
    THEN del(individual, idx)
    ELSE IF r < LimiarAdicionar /\ Len(individual) < TamanhoMaximo
    THEN Append(individual, gene)
    ELSE [individual EXCEPT ![1] = gene]

\* mutacao_variavel(individual) with r the outcome of random.random() in
\* hundredths, idx that of random.randrange(len(individual)) and gene that
\* of gerar_gene_rota(), each used by the branch that draws it.
mutacao_variavel(individual, r, idx, gene) ==
    IF r < LimiarRemover /\ Len(individual) > TamanhoMinimo
    THEN del(individual, idx)
    ELSE IF r < LimiarAdicionar /\ Len(individual) < TamanhoMaximo
    THEN Append(individual, gene)
    ELSE [individual EXCEPT ![idx + 1] = gene]

\* The branch of mutacao_variavel taken for r on an individual of tamanho genes.
ramo_da_mutacao(r, tamanho) ==
    IF r < LimiarRemover /\ tamanho > TamanhoMinimo THEN "remover"
    ELSE IF r < LimiarAdicionar /\ tamanho < TamanhoMaximo THEN "adicionar"
    ELSE "alterar"

\* The two cut points of tools.cxTwoPoint from its draws a = randint(1, size)
\* and b = randint(1, size - 1).
pontos_de_corte(a, b) == IF b >= a THEN <<a, b + 1>> ELSE <<b, a>>

\* ind1[cxpoint1:cxpoint2] replaced by the same slice of ind2.
trocar_fatia(ind1, ind2, cxpoint1, cxpoint2) ==
    list([k \in 1..Len(ind1) |-> IF cxpoint1 < k /\ k <= cxpoint2 THEN ind2[k] ELSE ind1[k]])

\* tools.cxTwoPoint exchanging the slice past the shorter individual's end.
cxTwoPoint_ate_o_fim(ind1, ind2, a, b) ==
    <<SubSeq(ind1, 1, pontos_de_corte(a, b)[1]) \o SubSeq(ind2, pontos_de_corte(a, b)[1] + 1, Len(ind2)),
      SubSeq(ind2, 1, pontos_de_corte(a, b)[1]) \o SubSeq(ind1, pontos_de_corte(a, b)[1] + 1, Len(ind1))>>

\* tools.cxTwoPoint(ind1, ind2) with the draws a and b: the two children.
cxTwoPoint(ind1, ind2, a, b) ==
    <<trocar_fatia(ind1, ind2, pontos_de_corte(a, b)[1], pontos_de_corte(a, b)[2]),
      trocar_fatia(ind2, ind1, pontos_de_corte(a, b)[1], pontos_de_corte(a, b)[2])>>

(***************************************************************************)
(* RouteSetOptimizer: evaluate (setup_ga)                                  *)
(***************************************************************************)
\* total_distancia += 100000 for a gene without a route, in centimetres.
Penalidade == 100000 * 100

\* The state of the loop of evaluate before its first gene.
InicioDaAvaliacao(cache) ==
    [raised |-> "", cache |-> cache, total_distancia |-> 0, bairros_atendidos |-> {}]

\* The body of the loop of evaluate that adds no penalty for a gene
\* without a route.
somar_rota_sem_penalidade(acc, r) ==
    IF r.raised # "" THEN [acc EXCEPT !.raised = r.raised]
    ELSE IF r.dados.dist = Inf
    THEN [acc EXCEPT !.cache = r.cache]
    ELSE [raised |-> "", cache |-> r.cache,
          total_distancia |-> acc.total_distancia + r.dados.dist,
          bairros_atendidos |-> acc.bairros_atendidos \cup r.dados.bairros]

\* The body of the loop of evaluate for one gene, with r what
\* _rota_entre_bairros answered for it.
somar_rota(acc, r) ==
    IF r.raised # "" THEN [acc EXCEPT !.raised = r.raised]
    ELSE IF r.dados.dist = Inf
    THEN [acc EXCEPT !.cache = r.cache,
                     !.total_distancia = acc.total_distancia + Penalidade]
    ELSE [raised |-> "", cache |-> r.cache,
          total_distancia |-> acc.total_distancia + r.dados.dist,
          bairros_atendidos |-> acc.bairros_atendidos \cup r.dados.bairros]

\* The loop of evaluate over the genes of individual, from gene k on.
RECURSIVE avaliar_genes(_, _, _, _, _, _)
avaliar_genes(individual, k, acc, bairros, g, nos_multipoint) ==
    IF k > Len(individual) \/ acc.raised # "" THEN acc
    ELSE avaliar_genes(individual, k + 1,
                       somar_rota(acc, rota_entre_bairros(acc.cache, bairros, g, nos_multipoint,
                                                          individual[k][1], individual[k][2])),
                       bairros, g, nos_multipoint)

\* The return of evaluate: (total_distancia, 1 - len(bairros_atendidos) /
\* qtd_bairros), the second value counted in units of 1 / qtd_bairros.
valores(acc, qtd_bairros) ==
    IF acc.raised # "" THEN [raised |-> acc.raised, cache |-> acc.cache, values |-> <<>>]
    ELSE [raised |-> "", cache |-> acc.cache,
          values |-> <<acc.total_distancia, qtd_bairros - Cardinality(acc.bairros_atendidos)>>]

\* evaluate(individual): [raised, cache (the cache it leaves), values].
evaluate(individual, cache, bairros, g, nos_multipoint) ==
    valores(avaliar_genes(individual, 1, InicioDaAvaliacao(cache), bairros, g, nos_multipoint),
            Len(bairros))

\* The loop of eaMuPlusLambda that gives a fitness to the individuals whose
\* fitness is not valid, from individual k on: [raised, cache, inds].
RECURSIVE avaliar_invalidos(_, _, _, _, _, _)
\* One turn of that loop, with r what evaluate returned for individual k.
fitness_atribuido(inds, k, r, bairros, g, nos_multipoint) ==
    IF r.raised # "" THEN [raised |-> r.raised, cache |-> r.cache, inds |-> inds]
    ELSE avaliar_invalidos([inds EXCEPT ![k].fitness = r.values], k + 1, r.cache,
                           bairros, g, nos_multipoint)

avaliar_invalidos(inds, k, cache, bairros, g, nos_multipoint) ==
    IF k > Len(inds) THEN [raised |-> "", cache |-> cache, inds |-> inds]
    ELSE IF inds[k].fitness # <<>>
    THEN avaliar_invalidos(inds, k + 1, cache, bairros, g, nos_multipoint)
    ELSE fitness_atribuido(inds, k, evaluate(inds[k].genes, cache, bairros, g, nos_multipoint),
                           bairros, g, nos_multipoint)

(***************************************************************************)
(* RouteSetOptimizer: dominance and selection (deap.tools, as setup_ga     *)
(* registers them)                                                         *)
(***************************************************************************)
\* FitnessMulti with the second objective maximised.
Pesos_maximiza_o_segundo ==
    <<-1, 1>>

\* weights=(-1.0, -1.0)
Pesos ==
    <<-1, -1>>

\* Fitness.wvalues
wvalues(values) == [i \in 1..Len(values) |-> values[i] * Pesos[i]]

\* Fitness.dominates: no weighted value worse and one strictly better.
dominates(values, other) ==
    /\ \A i \in 1..Len(values) : wvalues(values)[i] >= wvalues(other)[i]
    /\ \E i \in 1..Len(values) : wvalues(values)[i] > wvalues(other)[i]

\* The elements of the finite set S in the order of their keys, which are
\* distinct integers.
OrdenarPor(S, Chave(_)) ==
    [k \in 1..Cardinality(S) |->
        CHOOSE x \in S : Cardinality({y \in S : Chave(y) <= Chave(x)}) = k]

\* The order list.sort(key=...) of Python gives to places whose keys are
\* chaves: by key, equal keys in the order they had.
ordem_estavel(chaves) ==
    [k \in 1..Len(chaves) |->
        CHOOSE i \in 1..Len(chaves) :
            Cardinality({j \in 1..Len(chaves) : \/ chaves[j] < chaves[i]
                                                \/ (chaves[j] = chaves[i] /\ j <= i)}) = k]

\* The sequence s taken in the order pos of its places.
permutar(s, pos) == list([k \in 1..Len(s) |-> s[pos[k]]])

\* list(map_fit_ind.keys()): the fitness values of individuals in the order
\* of their first holder, from individual k on.
RECURSIVE fits_de(_, _, _)
fits_de(individuals, k, fits) ==
    IF k > Len(individuals) THEN fits
    ELSE fits_de(individuals, k + 1,
                 IF \E j \in 1..Len(fits) : fits[j] = individuals[k].fitness THEN fits
                 ELSE Append(fits, individuals[k].fitness))

\* map_fit_ind[fit]
map_fit_ind(individuals, fit) == SelectSeq(individuals, LAMBDA ind : ind.fitness = fit)

\* The individuals of the fitness values fits[front[1]], fits[front[2]], ...
RECURSIVE individuos_da_frente(_, _, _, _)
individuos_da_frente(individuals, fits, front, k) ==
    IF k > Len(front) THEN <<>>
    ELSE map_fit_ind(individuals, fits[front[k]])
             \o individuos_da_frente(individuals, fits, front, k + 1)

\* dominating_fits[fits[i]] after the loop over the pairs.
dominating_fits(fits, i) == Cardinality({j \in 1..Len(fits) : dominates(fits[j], fits[i])})

\* current_front after the loop over the pairs: the fitness values nobody
\* dominates, as indices into fits.
primeira_frente(fits) ==
    OrdenarPor({i \in 1..Len(fits) : dominating_fits(fits, i) = 0}, LAMBDA i : i)

\* The place in current_front of the last fitness that dominates fits[d].
ultimo_dominador(fits, current_front, d) ==
    CHOOSE k \in 1..Len(current_front) :
        /\ dominates(fits[current_front[k]], fits[d])
        /\ \A j \in (k + 1)..Len(current_front) : ~dominates(fits[current_front[j]], fits[d])

\* next_front: the fitness values whose count of dominators reaches zero
\* while current_front is walked, in the order they reach it.
proxima_frente(fits, current_front, classificados) ==
    OrdenarPor({d \in (1..Len(fits)) \ classificados :
                   \A j \in 1..Len(fits) : dominates(fits[j], fits[d]) => j \in classificados},
               LAMBDA d : ultimo_dominador(fits, current_front, d) * (Len(fits) + 1) + d)

\* The while loop of sortNondominated: fronts so far, pareto_sorted
\* individuals in them, N to sort.
RECURSIVE frentes_seguintes(_, _, _, _, _, _, _)
\* One turn of that loop, with next_front computed.
frente_acrescentada(individuals, fits, fronts, next_front, classificados, pareto_sorted, N) ==
    frentes_seguintes(individuals, fits,
                      Append(fronts, individuos_da_frente(individuals, fits, next_front, 1)),
                      next_front,
                      classificados \cup {next_front[k] : k \in 1..Len(next_front)},
                      pareto_sorted + Len(individuos_da_frente(individuals, fits, next_front, 1)),
                      N)

frentes_seguintes(individuals, fits, fronts, current_front, classificados, pareto_sorted, N) ==
    IF pareto_sorted >= N THEN fronts
    ELSE frente_acrescentada(individuals, fits, fronts,
                             proxima_frente(fits, current_front, classificados),
                             classificados, pareto_sorted, N)

\* sortNondominated past the loop over the pairs, with fits and the first
\* current_front computed.
frentes_de(individuals, fits, current_front, k, first_front_only) ==
    IF first_front_only THEN <<individuos_da_frente(individuals, fits, current_front, 1)>>
    ELSE frentes_seguintes(individuals, fits,
                           <<individuos_da_frente(individuals, fits, current_front, 1)>>,
                           current_front,
                           {current_front[j] : j \in 1..Len(current_front)},
                           Len(individuos_da_frente(individuals, fits, current_front, 1)),
                           Min(Len(individuals), k))

frentes_dos_fits(individuals, fits, k, first_front_only) ==
    frentes_de(individuals, fits, primeira_frente(fits), k, first_front_only)

\* tools.sortNondominated(individuals, k, first_front_only): the list of fronts.
sortNondominated(individuals, k, first_front_only) ==
    IF k = 0 THEN <<>>
    ELSE frentes_dos_fits(individuals, fits_de(individuals, 1, <<>>), k, first_front_only)

\* crowd after crowd.sort(key=objective i): the places of front in that order.
crowd_ordenado(front, crowd, i) ==
    permutar(crowd, ordem_estavel([k \in 1..Len(crowd) |-> front[crowd[k]].fitness[i]]))

\* crowd after the sort of the first objective, and after that of the
\* second, which starts from the order the first left.
crowd1(front) == crowd_ordenado(front, [p \in 1..Len(front) |-> p], 1)

crowd2(front) == crowd_ordenado(front, crowd1(front), 2)

\* The greatest common divisor of the values of objective i in front, 1
\* when all are zero: the unit the differences below are counted in.
RECURSIVE MdcDe(_, _, _, _)
MdcDe(front, i, k, g) ==
    IF k > Len(front) THEN (IF g = 0 THEN 1 ELSE g)
    ELSE MdcDe(front, i, k + 1, Mdc(front[k].fitness[i], g))

\* crowd[-1][0][i] - crowd[0][0][i], in units.
amplitude(front, crowd, i) ==
    (front[crowd[Len(crowd)]].fitness[i] - front[crowd[1]].fitness[i]) \div MdcDe(front, i, 1, 0)

\* next[0][i] - prev[0][i] for the place p of front, in units (0 at the
\* ends of crowd and when the objective has one value only).
vizinhos(front, crowd, i, p) ==
    LET k == CHOOSE j \in 1..Len(crowd) : crowd[j] = p
    IN  IF k = 1 \/ k = Len(crowd) \/ amplitude(front, crowd, i) = 0 THEN 0
        ELSE (front[crowd[k + 1]].fitness[i] - front[crowd[k - 1]].fitness[i])
                 \div MdcDe(front, i, 1, 0)

nas_pontas(crowd, p) == crowd[1] = p \/ crowd[Len(crowd)] = p

\* distances[p] of assignCrowdingDist: float("inf") at the ends of either
\* order, else the sum of the two quotients, over the common denominator
\* nobj * amplitude of the first * amplitude of the second.
distances(front, c1, c2, p) ==
    IF nas_pontas(c1, p) \/ nas_pontas(c2, p) THEN Inf
    ELSE vizinhos(front, c1, 1, p) * Max(1, amplitude(front, c2, 2))
         + vizinhos(front, c2, 2, p) * Max(1, amplitude(front, c1, 1))

\* ind.fitness.crowding_dist after assignCrowdingDist(front), by place:
\* the loop that stores the distances writes an object that sits at
\* several places once per place, and the last one stays.
crowding_dist(front, c1, c2) ==
    [p \in 1..Len(front) |->
        distances(front, c1, c2,
                  CHOOSE q \in 1..Len(front) :
                      /\ front[q].id = front[p].id
                      /\ \A j \in (q + 1)..Len(front) : front[j].id # front[p].id)]

\* sorted(front, key=attrgetter("fitness.crowding_dist"), reverse=True),
\* with dist the crowding distances by place.
ordenada_por_distancia(front, dist) ==
    permutar(front, ordem_estavel([p \in 1..Len(front) |-> 0 - dist[p]]))

sorted_front(front) ==
    ordenada_por_distancia(front, crowding_dist(front, crowd1(front), crowd2(front)))

\* chain(*pareto_fronts[:-1])
RECURSIVE chain(_, _)
chain(fronts, k) ==
    IF k >= Len(fronts) THEN <<>> ELSE fronts[k] \o chain(fronts, k + 1)

\* selNSGA2 that fills the last places in the order of the last front.
escolhidos_sem_crowding(fronts, chosen, k) ==
    IF k - Len(chosen) > 0
    THEN chosen \o SubSeq(fronts[Len(fronts)], 1, k - Len(chosen))
    ELSE chosen

\* selNSGA2 past the sort, with chosen the fronts before the last.
escolhidos(fronts, chosen, k) ==
    IF k - Len(chosen) > 0
    THEN chosen \o SubSeq(sorted_front(fronts[Len(fronts)]), 1, k - Len(chosen))
    ELSE chosen

selecao_das_frentes(fronts, k) ==
    IF fronts = <<>> THEN <<>> ELSE escolhidos(fronts, chain(fronts, 1), k)

\* tools.selNSGA2(individuals, k)
selNSGA2(individuals, k) == selecao_das_frentes(sortNondominated(individuals, k, FALSE), k)

(***************************************************************************)
(* RouteSetOptimizer: variation (algorithms.varOr) and extraction          *)
(***************************************************************************)
\* An object no individual of inds is: the least name none of them has.
novo_id(inds) ==
    CHOOSE n \in 1..(Len(inds) + 1) :
        /\ \A k \in 1..Len(inds) : inds[k].id # n
        /\ \A m \in 1..(n - 1) : \E k \in 1..Len(inds) : inds[k].id = m

\* The objects of inds named 1, 2, ... in the order of their first place.
renumerar(inds) ==
    list([k \in 1..Len(inds) |->
            [inds[k] EXCEPT !.id = Cardinality({inds[j].id : j \in
                1..(CHOOSE q \in 1..Len(inds) :
                       /\ inds[q].id = inds[k].id
                       /\ \A j \in 1..(q - 1) : inds[j].id # inds[k].id)})]])

\* varOr, crossover: the first child of the clones of population[i] and
\* population[j], its fitness deleted.
cruzamento(population, i, j, a, b, id) ==
    Individual(cxTwoPoint(population[i].genes, population[j].genes, a, b)[1], <<>>, id)

\* varOr, mutation: the mutated clone of population[i], its fitness deleted.
mutacao(population, i, r, idx, gene, id) ==
    Individual(mutacao_variavel(population[i].genes, r, idx, gene), <<>>, id)

\* varOr, reproduction: population[i] itself.
reproducao(population, i) == population[i]

\* min(pareto_front, key=...) on the first objective.
melhor_por_distancia(pareto_front) ==
    pareto_front[CHOOSE p \in 1..Len(pareto_front) :
        /\ \A q \in 1..Len(pareto_front) :
               pareto_front[p].fitness[1] <= pareto_front[q].fitness[1]
        /\ \A q \in 1..(p - 1) : pareto_front[q].fitness[1] > pareto_front[p].fitness[1]]

\* min(pareto_front, key=lambda ind: ind.fitness.values[1]): the first of
\* the front among those of least second objective.
melhor(pareto_front) ==
    pareto_front[CHOOSE p \in 1..Len(pareto_front) :
        /\ \A q \in 1..Len(pareto_front) :
               pareto_front[p].fitness[2] <= pareto_front[q].fitness[2]
        /\ \A q \in 1..(p - 1) : pareto_front[q].fitness[2] > pareto_front[p].fitness[2]]

\* The row extrair_melhor_solucao appends for gene i (counted from 0).
linha_final(i, dados) ==
    [geometry |-> dados.geom, id |-> i, bairros_atendidos |-> dados.bairros,
     qtd_bairros |-> Cardinality(dados.bairros), distancia |-> dados.dist]

\* The loop of extrair_melhor_solucao over the genes of melhor_ind, from
\* gene k on: [raised, cache, linhas].
RECURSIVE linhas_finais(_, _, _, _, _, _)
\* One turn of that loop, with r what _rota_entre_bairros answered.
linha_acrescentada(melhor_ind, k, acc, r, bairros, g, nos_multipoint) ==
    IF r.raised # "" THEN [acc EXCEPT !.raised = r.raised]
    ELSE linhas_finais(melhor_ind, k + 1,
                       [raised |-> "", cache |-> r.cache,
                        linhas |-> IF r.dados.geom # Nenhuma
                                   THEN Append(acc.linhas, linha_final(k - 1, r.dados))
                                   ELSE acc.linhas],
                       bairros, g, nos_multipoint)

linhas_finais(melhor_ind, k, acc, bairros, g, nos_multipoint) ==
    IF k > Len(melhor_ind) THEN acc
    ELSE linha_acrescentada(melhor_ind, k, acc,
                            rota_entre_bairros(acc.cache, bairros, g, nos_multipoint,
                                               melhor_ind[k][1], melhor_ind[k][2]),
                            bairros, g, nos_multipoint)

\* extrair_melhor_solucao past the choice of melhor_ind.
solucao_de(pareto_front, melhor_ind, r) ==
    [raised |-> r.raised, cache |-> r.cache, pareto_front |-> pareto_front,
     melhor_ind |-> melhor_ind, gdf_final |-> r.linhas]

\* extrair_melhor_solucao past sortNondominated.
solucao_da_frente(pareto_front, cache, bairros, g, nos_multipoint) ==
    solucao_de(pareto_front, melhor(pareto_front),
               linhas_finais(melhor(pareto_front).genes, 1,
                             [raised |-> "", cache |-> cache, linhas |-> <<>>],
                             bairros, g, nos_multipoint))

\* extrair_melhor_solucao(populacao): [raised, cache, pareto_front,
\* melhor_ind, gdf_final]; the list of fronts of no individual is empty
\* and its [0] raises IndexError.
extrair_melhor_solucao(populacao, cache, bairros, g, nos_multipoint) ==
    IF Len(populacao) = 0
    THEN [raised |-> "IndexError", cache |-> cache, pareto_front |-> <<>>,
          melhor_ind |-> <<>>, gdf_final |-> <<>>]
    ELSE solucao_da_frente(sortNondominated(populacao, Len(populacao), TRUE)[1],
                           cache, bairros, g, nos_multipoint)

(***************************************************************************)
(* Inputs: the layers handed to the core                                   *)
(***************************************************************************)
\* The most road features of a routing network.
MaxVias == 2

Direcoes == {-1, 0, 1}

Sentidos == {"IDA", "VOLTA"}

\* A neighbourhood row: a square polygon of half side meio_lado around c (the
\* squares of one layer are equal and disjoint, so area is their common weight).
BairroQuadrado(nome, c, tipo, meio_lado) ==
    [name |-> nome, centroid |-> c, tipo_polo |-> tipo, area |-> 1, geom_type |-> "Polygon",
     meio_lado |-> meio_lado]

Bairro(nome, c, tipo) == BairroQuadrado(nome, c, tipo, 1000)

\* A single road near the origin under varied anchors (segments of 4 cm,
\* 16 cm, 100 m, a diagonal, a repeated vertex, two segments, a single
\* repeated point).
LinhasPesos ==
    { <<(<<0, 0>>), (<<10000, 0>>)>>,
      <<(<<0, 0>>), (<<4, 0>>)>>,
      <<(<<0, 0>>), (<<16, 0>>)>>,
      <<(<<0, 0>>), (<<6000, 8000>>)>>,
      <<(<<0, 0>>), (<<0, 0>>), (<<10000, 0>>)>>,
      <<(<<0, 0>>), (<<10000, 0>>), (<<10000, 10000>>)>>,
      <<(<<0, 0>>), (<<0, 0>>)>> }

ArticulacaoPesos ==
    { <<(<<300000, 0>>), (<<300000, 2000>>)>>,
      <<(<<5000, 0>>), (<<300000, 0>>)>>,
      <<(<<300000, 0>>), (<<45000, 0>>)>> }

BairrosPesos ==
    { <<Bairro("Sul", <<250000, 0>>, "Emergente"), Bairro(" Centro ", <<250000, 2000>>, "Consolidado")>>,
      <<Bairro("Sul", <<5000, 0>>, "Emergente"), Bairro(" Centro ", <<250000, 0>>, "Consolidado")>>,
      <<Bairro("Sul", <<250000, 0>>, "Consolidado"), Bairro(" Centro ", <<5000, 0>>, "Emergente")>>,
      <<Bairro("Sul", <<5000, 0>>, "Planejado"), Bairro(" Centro ", <<60000, 0>>, "Consolidado"),
        Bairro("Norte ", <<250000, 0>>, "Emergente")>> }

EntradasPesos ==
    { [vias |-> <<[geometry |-> l, DIR |-> d, ID |-> 1]>>, pontos |-> a, bairros |-> b] :
        l \in LinhasPesos, d \in Direcoes, a \in ArticulacaoPesos, b \in BairrosPesos }

\* A network of up to MaxVias roads over four junctions a kilometre apart.
LinhasRotas ==
    { <<(<<0, 0>>), (<<100000, 0>>), (<<200000, 0>>)>>,
      <<(<<0, 0>>), (<<100000, 40000>>), (<<200000, 0>>)>>,
      <<(<<0, 0>>), (<<200000, 0>>)>>,
      <<(<<100000, 0>>), (<<100000, 40000>>)>> }

ArticulacaoRotas == <<(<<50000, 20000>>), (<<150000, 20000>>)>>

BairrosRotas ==
    <<Bairro(" Centro ", <<2000, 2000>>, "Consolidado"),
      Bairro("Norte ", <<198000, 2000>>, "Emergente")>>

ViasRotas ==
    UNION { { [k \in 1..n |-> [geometry |-> f[k][1], DIR |-> f[k][2], ID |-> k]] :
                f \in [1..n -> LinhasRotas \X Direcoes] } : n \in 1..MaxVias }

EntradasRotas ==
    { [vias |-> v, pontos |-> ArticulacaoRotas, bairros |-> BairrosRotas] : v \in ViasRotas }

\* The names a caller passes as hub ("" is None).
NomesCentrais == {"", "Centro", "Norte", "Leste"}

(***************************************************************************)
(* State                                                                   *)
(***************************************************************************)
VARIABLES
    gdf_vias,                \* the road layer
    gdf_pontos_articulacao,  \* the articulation points
    gdf_bairros,             \* the neighbourhood layer
    grafo,                   \* the MultiDiGraph
    pc,                      \* where the run is
    chamada,                 \* the last call of _calcular_rota_individual and its result
    lista_caminhos,          \* the routes a batch collected
    gdf_rotas,               \* the route layer a batch returned
    nos_grafo_multipoint,    \* OtimizadorRotas.nos_grafo_multipoint (<<>> is None)
    cache_rotas,             \* OtimizadorRotas.cache_rotas
    erro,                    \* the exception that ended the run, "" if none
    args,                    \* the arguments of the call of calcular_peso_atrativo or of the ModeloReset
    ret,                     \* what that call computed
    pop,                     \* the population of rodar_algoritmo
    offspring,               \* the offspring varOr has built so far
    gen,                     \* the generations completed
    n_populacao,             \* the arguments of rodar_algoritmo
    n_geracoes,
    pareto_front,            \* the locals and the result of extrair_melhor_solucao
    melhor_ind,
    gdf_final,
    camadas                  \* ModeloReset.camadas: layer name -> layer

\* The state of a run of the genetic algorithm.
vars_ag == <<pop, offspring, gen, n_populacao, n_geracoes, pareto_front, melhor_ind, gdf_final>>

\* The state of a ModeloReset besides its graph.
vars_wf == <<camadas>>

vars == <<gdf_vias, gdf_pontos_articulacao, gdf_bairros, grafo, pc, chamada,
          lista_caminhos, gdf_rotas, nos_grafo_multipoint, cache_rotas, erro, args, ret,
          pop, offspring, gen, n_populacao, n_geracoes, pareto_front, melhor_ind, gdf_final,
          camadas>>

\* No run of the genetic algorithm yet.
SemAG ==
    /\ pop = <<>>
    /\ offspring = <<>>
    /\ gen = 0
    /\ n_populacao = 0
    /\ n_geracoes = 0
    /\ pareto_front = <<>>
    /\ melhor_ind = <<>>
    /\ gdf_final = <<>>

\* A GeoDataFrame held in camadas: its rows and its declared CRS. The
\* coordinates of the rows are kept in the metric system throughout, so
\* to_crs changes the declared CRS only.
Camada(crs, linhas) == [tipo |-> "GeoDataFrame", crs |-> crs, linhas |-> linhas]

\* The value None held in camadas.
NoneType == [tipo |-> "NoneType", crs |-> "", linhas |-> <<>>]

\* camadas before any ModeloReset was constructed.
SemCamadas == [k \in {} |-> NoneType]

SemWorkflow == camadas = SemCamadas

SemChamada == [no_origem |-> <<>>, no_destino |-> <<>>, sentido |-> "", resultado |-> Nenhuma]

\* Nothing passed to, or returned by, calcular_peso_atrativo yet.
SemArgs == [ponto_articulacao |-> <<>>, ponto_aresta |-> <<>>, centroid_bairro |-> <<>>,
            peso_original |-> 0, tipo_bairro |-> ""]

SemRet == [desconto_articulacao |-> 0, desconto_polo |-> 0, desconto_total |-> 0, peso |-> 0]

InitCom(entradas) ==
    /\ \E e \in entradas :
        /\ gdf_vias = e.vias
        /\ gdf_pontos_articulacao = e.pontos
        /\ gdf_bairros = e.bairros
    /\ grafo = GrafoVazio
    /\ pc = "inicio"
    /\ chamada = SemChamada
    /\ lista_caminhos = <<>>
    /\ gdf_rotas = <<>>
    /\ nos_grafo_multipoint = <<>>
    /\ cache_rotas = <<>>
    /\ erro = ""
    /\ args = SemArgs
    /\ ret = SemRet
    /\ SemAG
    /\ SemWorkflow

Init == InitCom(EntradasPesos \cup EntradasRotas)

(***************************************************************************)
(* Operations                                                              *)
(***************************************************************************)
\* LineString.is_valid and not is_empty: at least two distinct coordinates.
geometria_valida(linha) == \E i, j \in 1..Len(linha) : linha[i] # linha[j]

\* The loop of criar_grafo_ponderado over the rows of gdf_vias, from row k on.
RECURSIVE grafo_das_vias(_, _, _, _, _, _)
grafo_das_vias(g, vias, k, todos_os_pontos_articulacao, centroids, tipos) ==
    IF k > Len(vias) THEN g
    ELSE LET via == vias[k]
             g2 == IF ~geometria_valida(via.geometry) THEN g
                   ELSE criacao_arestas(g, via.geometry, 1, todos_os_pontos_articulacao,
                                        centroids, tipos, via.ID, via.DIR)
         IN  grafo_das_vias(g2, vias, k + 1, todos_os_pontos_articulacao, centroids, tipos)

criar_grafo_ponderado(vias, pontos_articulacao, bairros) ==
    grafo_das_vias(GrafoVazio, vias, 1, union_all(pontos_articulacao),
                   centroids_bairros(bairros), lista_tipos_bairros(bairros))

\* The Python type of the value a road row holds in a column: "int" unless
\* the row says otherwise in its field tipos.
tipo_de(via, coluna) ==
    IF "tipos" \in DOMAIN via THEN via.tipos[coluna] ELSE "int"

\* The test of a row without looking at its geometry first.
via_rejeitada_sem_ver_geometria(via) ==
    tipo_de(via, "DIR") # "int" \/ tipo_de(via, "ID") # "int"

\* not isinstance(direcao, int) or not isinstance(via_id_principal, int),
\* which the loop reaches for the rows it did not skip for their geometry.
via_rejeitada(via) ==
    /\ geometria_valida(via.geometry)
    /\ (tipo_de(via, "DIR") # "int" \/ tipo_de(via, "ID") # "int")

\* What criar_grafo_ponderado raises: ValueError on an empty layer of
\* articulation points, TypeError where MultiPoint(...) is handed a union
\* that is no collection of points (union_all gives a single Point for one
\* distinct point and an empty GeometryCollection for none, and neither
\* has a length), and ValueError at the first row the loop rejects.
erro_do_grafo(vias, pontos_articulacao, bairros) ==
    IF Len(pontos_articulacao) = 0 THEN "ValueError"
    ELSE IF Len(union_all(pontos_articulacao)) < 2 THEN "TypeError"
    ELSE IF Len(centroids_bairros(bairros)) < 2 THEN "TypeError"
    ELSE IF \E k \in 1..Len(vias) : via_rejeitada(vias[k]) THEN "ValueError"
    ELSE ""

\* criar_grafo_ponderado returned the graph, or raised and returned none.
GrafoCriado(raised) ==
    /\ erro' = raised
    /\ grafo' = IF raised = ""
                THEN criar_grafo_ponderado(gdf_vias, gdf_pontos_articulacao, gdf_bairros)
                ELSE grafo

CriarGrafoPonderado ==
    /\ pc = "inicio"
    /\ erro = ""
    /\ GrafoCriado(erro_do_grafo(gdf_vias, gdf_pontos_articulacao, gdf_bairros))
    /\ pc' = "grafo"
    /\ UNCHANGED <<gdf_vias, gdf_pontos_articulacao, gdf_bairros, chamada, lista_caminhos,
                   gdf_rotas, nos_grafo_multipoint, cache_rotas, args, ret>>
    /\ UNCHANGED vars_ag
    /\ UNCHANGED vars_wf

\* A call _calcular_rota_individual(grafo, no_origem, no_destino, sentido).
CalcularRotaIndividual ==
    /\ pc = "grafo"
    /\ erro = ""
    /\ \E no_origem \in NodeSet(grafo), no_destino \in NodeSet(grafo), sentido \in Sentidos :
        LET r == calcular_rota_individual(grafo, no_origem, no_destino, sentido)
        IN  /\ chamada' = [no_origem |-> no_origem, no_destino |-> no_destino,
                           sentido |-> sentido, resultado |-> r.rota]
            /\ erro' = r.raised
    /\ pc' = "rota"
    /\ UNCHANGED <<gdf_vias, gdf_pontos_articulacao, gdf_bairros, grafo, lista_caminhos,
                   gdf_rotas, nos_grafo_multipoint, cache_rotas, args, ret>>
    /\ UNCHANGED vars_ag
    /\ UNCHANGED vars_wf

\* A call encontrar_caminho_minimo(gdf_bairros, grafo, bairro_central, sentido).
EncontrarCaminhoMinimo ==
    /\ pc = "grafo"
    /\ erro = ""
    /\ \E bairro_central \in NomesCentrais, sentido \in Sentidos :
        LET r == encontrar_caminho_minimo(gdf_bairros, grafo, bairro_central, sentido)
        IN  /\ lista_caminhos' = r.lista
            /\ gdf_rotas' = r.rotas
            /\ erro' = r.raised
    /\ pc' = "lote"
    /\ UNCHANGED <<gdf_vias, gdf_pontos_articulacao, gdf_bairros, grafo, chamada,
                   nos_grafo_multipoint, cache_rotas, args, ret>>
    /\ UNCHANGED vars_ag
    /\ UNCHANGED vars_wf

\* OtimizadorRotas.__init__ (with _preparar_grafo)
IniciarOtimizador ==
    /\ pc = "grafo"
    /\ erro = ""
    /\ cache_rotas' = <<>>
    /\ nos_grafo_multipoint' = IF Len(grafo.nodes) > 0 THEN grafo.nodes ELSE <<>>
    /\ pc' = "otimizador"
    /\ UNCHANGED <<gdf_vias, gdf_pontos_articulacao, gdf_bairros, grafo, chamada,
                   lista_caminhos, gdf_rotas, erro, args, ret>>
    /\ UNCHANGED vars_ag
    /\ UNCHANGED vars_wf

\* OtimizadorRotas._rota_entre_bairros(idx_origem, idx_destino)
RotaEntreBairros ==
    /\ pc = "otimizador"
    /\ erro = ""
    /\ \E idx_origem \in 1..Len(gdf_bairros), idx_destino \in 1..Len(gdf_bairros) :
        /\ idx_origem # idx_destino
        /\ LET r == rota_entre_bairros(cache_rotas, gdf_bairros, grafo, nos_grafo_multipoint,
                                       idx_origem, idx_destino)
           IN  /\ erro' = r.raised
               /\ cache_rotas' = r.cache
    /\ UNCHANGED <<gdf_vias, gdf_pontos_articulacao, gdf_bairros, grafo, pc, chamada,
                   lista_caminhos, gdf_rotas, nos_grafo_multipoint, args, ret>>
    /\ UNCHANGED vars_ag
    /\ UNCHANGED vars_wf

Next ==
    \/ CriarGrafoPonderado
    \/ CalcularRotaIndividual
    \/ EncontrarCaminhoMinimo
    \/ IniciarOtimizador
    \/ RotaEntreBairros

Spec == Init /\ [][Next]_vars

(***************************************************************************)
(* calcular_peso_atrativo over the range of its arguments                  *)
(***************************************************************************)
\* Distances (cm) around the radii 1000 m, 1500 m and 2000 m.
DistanciasTeste ==
    {0, 2, 50, 50000, 99998, 100000, 100002, 149998, 150000, 199998, 200000, 250000}

TiposBairro == {"Emergente", "Consolidado", "Planejado", "Nenhum"}

PesosTeste == {4, 16, 10000, 107703}

ArgsPeso ==
    { [ponto_articulacao |-> <<da, 0>>, ponto_aresta |-> <<0, 0>>, centroid_bairro |-> <<dp, 0>>,
       peso_original |-> w, tipo_bairro |-> t] :
        da \in DistanciasTeste, dp \in DistanciasTeste, w \in PesosTeste, t \in TiposBairro }

InitPeso ==
    /\ gdf_vias = <<>>
    /\ gdf_pontos_articulacao = <<>>
    /\ gdf_bairros = <<>>
    /\ grafo = GrafoVazio
    /\ pc = "peso"
    /\ chamada = SemChamada
    /\ lista_caminhos = <<>>
    /\ gdf_rotas = <<>>
    /\ nos_grafo_multipoint = <<>>
    /\ cache_rotas = <<>>
    /\ erro = ""
    /\ args \in ArgsPeso
    /\ ret = SemRet
    /\ SemAG
    /\ SemWorkflow

\* A call calcular_peso_atrativo(...), with the discounts it computes on the way.
CalcularPesoAtrativo ==
    /\ pc = "peso"
    /\ LET da == desconto_ponto_articulacao(distance(args.ponto_articulacao, args.ponto_aresta))
           dp == desconto_polo(distance(args.centroid_bairro, args.ponto_aresta),
                               raio_influencia(args.tipo_bairro), max_desconto(args.tipo_bairro))
       IN  ret' = [desconto_articulacao |-> da, desconto_polo |-> dp,
                   desconto_total |-> desconto_total(da, dp),
                   peso |-> calcular_peso_atrativo(args.ponto_articulacao, args.ponto_aresta,
                                                   args.centroid_bairro, args.peso_original,
                                                   args.tipo_bairro)]
    /\ pc' = "peso_calculado"
    /\ UNCHANGED <<gdf_vias, gdf_pontos_articulacao, gdf_bairros, grafo, chamada, lista_caminhos,
                   gdf_rotas, nos_grafo_multipoint, cache_rotas, erro, args>>
    /\ UNCHANGED vars_ag
    /\ UNCHANGED vars_wf

NextPeso == CalcularPesoAtrativo

SpecPeso == InitPeso /\ [][NextPeso]_vars

(***************************************************************************)
(* filtrar_sublinhas over route collections                                *)
(***************************************************************************)
\* The most routes of a collection handed to the filter.
MaxRotas == 3

\* Route geometries on a lattice of 1 m: a line, its halves, the same line
\* with fewer vertices, the line reversed, and a line leaving it.
LinhasFiltro ==
    { <<(<<0, 0>>), (<<100, 100>>), (<<200, 200>>)>>,
      <<(<<0, 0>>), (<<100, 100>>)>>,
      <<(<<100, 100>>), (<<200, 200>>)>>,
      <<(<<0, 0>>), (<<200, 200>>)>>,
      <<(<<200, 200>>), (<<100, 100>>), (<<0, 0>>)>>,
      <<(<<0, 0>>), (<<100, 100>>), (<<200, 100>>)>> }

ColecoesFiltro ==
    UNION { { [k \in 1..n |-> [geometry |-> f[k], id |-> <<k - 1, "I">>, bairro_origem |-> "Sul"]] :
                f \in [1..n -> LinhasFiltro] } : n \in 0..MaxRotas }

InitFiltro ==
    /\ gdf_vias = <<>>
    /\ gdf_pontos_articulacao = <<>>
    /\ gdf_bairros = <<>>
    /\ grafo = GrafoVazio
    /\ pc = "filtro"
    /\ chamada = SemChamada
    /\ lista_caminhos \in ColecoesFiltro
    /\ gdf_rotas = <<>>
    /\ nos_grafo_multipoint = <<>>
    /\ cache_rotas = <<>>
    /\ erro = ""
    /\ args = SemArgs
    /\ ret = SemRet
    /\ SemAG
    /\ SemWorkflow

\* A call filtrar_sublinhas(gdf) on the collection lista_caminhos.
FiltrarSublinhas ==
    /\ pc = "filtro"
    /\ gdf_rotas' = filtrar_sublinhas(lista_caminhos)
    /\ pc' = "filtrado"
    /\ UNCHANGED <<gdf_vias, gdf_pontos_articulacao, gdf_bairros, grafo, chamada, lista_caminhos,
                   nos_grafo_multipoint, cache_rotas, erro, args, ret>>
    /\ UNCHANGED vars_ag
    /\ UNCHANGED vars_wf

\* A call filtrar_sublinhas(gdf) on the layer the call before returned.
FiltrarDeNovo ==
    /\ pc = "filtrado"
    /\ lista_caminhos' = gdf_rotas
    /\ gdf_rotas' = filtrar_sublinhas(gdf_rotas)
    /\ pc' = "refiltrado"
    /\ UNCHANGED <<gdf_vias, gdf_pontos_articulacao, gdf_bairros, grafo, chamada,
                   nos_grafo_multipoint, cache_rotas, erro, args, ret>>
    /\ UNCHANGED vars_ag
    /\ UNCHANGED vars_wf

NextFiltro ==
    \/ FiltrarSublinhas
    \/ FiltrarDeNovo

SpecFiltro == InitFiltro /\ [][NextFiltro]_vars

(***************************************************************************)
(* A run of the genetic algorithm: rodar_algoritmo (eaMuPlusLambda with    *)
(* varOr) and extrair_melhor_solucao                                       *)
(***************************************************************************)
\* The most generations of a run.
MaxGeracoes == 1

\* The population sizes of a run.
TamanhosPopulacao == {1, 2}

\* Three neighbourhoods a hundred metres apart along the x axis.
BairrosAG ==
    <<Bairro("Sul", <<0, 0>>, "Emergente"),
      Bairro("Centro", <<10000, 0>>, "Consolidado"),
      Bairro("Norte", <<20000, 0>>, "Planejado")>>

\* A one-way road of two nodes and one edge, a two-way road of three nodes,
\* a road without a valid geometry, which leaves the graph empty, and a
\* one-way ring on which the way back from the second neighbourhood to the
\* first is longer and passes the third.
ViasAG ==
    { <<[geometry |-> <<(<<0, 0>>), (<<10000, 0>>)>>, DIR |-> 1, ID |-> 1]>>,
      <<[geometry |-> <<(<<0, 0>>), (<<10000, 0>>), (<<20000, 0>>)>>, DIR |-> 0, ID |-> 1]>>,
      <<[geometry |-> <<(<<0, 0>>), (<<0, 0>>)>>, DIR |-> 0, ID |-> 1]>>,
      <<[geometry |-> <<(<<0, 0>>), (<<10000, 0>>), (<<20000, 0>>), (<<10000, 5000>>), (<<0, 0>>)>>,
         DIR |-> 1, ID |-> 1]>> }

EntradasAG ==
    { [vias |-> v, pontos |-> <<(<<300000, 0>>), (<<300000, 2000>>)>>, bairros |-> BairrosAG] :
        v \in ViasAG }

\* The outcomes of the random draws a run is followed for.
TamanhosSorteados == {TamanhoMinimo, TamanhoMaximo}

GenesIniciais ==
    {gerar_gene_rota(lista_de_indices(BairrosAG), p) :
        p \in sample2(Len(BairrosAG)) \cap {<<1, 2>>, <<2, 1>>}}

GenesDaMutacao ==
    {gerar_gene_rota(lista_de_indices(BairrosAG), p) : p \in sample2(Len(BairrosAG)) \cap {<<2, 3>>}}

SorteiosR == {0, 50, 99}

IndicesSorteados(tamanho) == {0, tamanho - 1}

CortesSorteados(size) == {<<1, size - 1>>, <<2, 1>>}

InitAG == InitCom(EntradasAG)

\* rodar_algoritmo(n_geracoes, n_populacao) up to the first generation:
\* toolbox.population(n=n_populacao) and the evaluation of eaMuPlusLambda
\* before its loop.
PopulacaoAvaliada(r) ==
    /\ pop' = r.inds
    /\ cache_rotas' = r.cache
    /\ erro' = r.raised

RodarAlgoritmo ==
    /\ pc = "otimizador"
    /\ erro = ""
    /\ \E n \in TamanhosPopulacao, ngen \in 0..MaxGeracoes :
        /\ n_populacao' = n
        /\ n_geracoes' = ngen
        /\ \E tamanho \in [1..n -> TamanhosSorteados], gene \in [1..n -> GenesIniciais] :
            \E r \in {avaliar_invalidos(
                         list([k \in 1..n |->
                                 Individual(gerar_individuo(tamanho[k],
                                                            [j \in 1..tamanho[k] |-> gene[k]]),
                                            <<>>, k)]),
                         1, cache_rotas, gdf_bairros, grafo, nos_grafo_multipoint)} :
                PopulacaoAvaliada(r)
    /\ gen' = 0
    /\ offspring' = <<>>
    /\ pc' = "geracao"
    /\ UNCHANGED <<gdf_vias, gdf_pontos_articulacao, gdf_bairros, grafo, chamada,
                   lista_caminhos, gdf_rotas, nos_grafo_multipoint, args, ret,
                   pareto_front, melhor_ind, gdf_final>>
    /\ UNCHANGED vars_wf

\* varOr is in its loop: a generation is under way and lambda_ offspring
\* are not yet there.
Variando ==
    /\ pc = "geracao"
    /\ erro = ""
    /\ gen < n_geracoes
    /\ Len(offspring) < n_populacao

\* One turn of the loop of varOr with op_choice < cxpb; random.sample(
\* population, 2) raises ValueError on a population of one.
Cruzar ==
    /\ Variando
    /\ IF Len(pop) < 2
       THEN /\ erro' = "ValueError"
            /\ UNCHANGED offspring
       ELSE /\ \E i \in 1..Len(pop), j \in 1..Len(pop) :
                /\ i # j
                /\ \E c \in CortesSorteados(Min(Len(pop[i].genes), Len(pop[j].genes))) :
                    offspring' = Append(offspring,
                                        cruzamento(pop, i, j, c[1], c[2], novo_id(pop \o offspring)))
            /\ UNCHANGED erro
    /\ UNCHANGED <<gdf_vias, gdf_pontos_articulacao, gdf_bairros, grafo, pc, chamada,
                   lista_caminhos, gdf_rotas, nos_grafo_multipoint, cache_rotas, args, ret,
                   pop, gen, n_populacao, n_geracoes, pareto_front, melhor_ind, gdf_final>>
    /\ UNCHANGED vars_wf

\* One turn of the loop of varOr with cxpb <= op_choice < cxpb + mutpb.
Mutar ==
    /\ Variando
    /\ \E i \in 1..Len(pop), r \in SorteiosR, gene \in GenesDaMutacao :
        \E idx \in IndicesSorteados(Len(pop[i].genes)) :
            offspring' = Append(offspring,
                                mutacao(pop, i, r, idx, gene, novo_id(pop \o offspring)))
    /\ UNCHANGED <<gdf_vias, gdf_pontos_articulacao, gdf_bairros, grafo, pc, chamada,
                   lista_caminhos, gdf_rotas, nos_grafo_multipoint, cache_rotas, erro, args, ret,
                   pop, gen, n_populacao, n_geracoes, pareto_front, melhor_ind, gdf_final>>
    /\ UNCHANGED vars_wf

\* One turn of the loop of varOr with op_choice >= cxpb + mutpb.
Reproduzir ==
    /\ Variando
    /\ \E i \in 1..Len(pop) : offspring' = Append(offspring, reproducao(pop, i))
    /\ UNCHANGED <<gdf_vias, gdf_pontos_articulacao, gdf_bairros, grafo, pc, chamada,
                   lista_caminhos, gdf_rotas, nos_grafo_multipoint, cache_rotas, erro, args, ret,
                   pop, gen, n_populacao, n_geracoes, pareto_front, melhor_ind, gdf_final>>
    /\ UNCHANGED vars_wf

\* The rest of a generation of eaMuPlusLambda, with r the evaluation of
\* the offspring: population[:] = toolbox.select(population + offspring, mu).
GeracaoSelecionada(r) ==
    /\ cache_rotas' = r.cache
    /\ erro' = r.raised
    /\ IF r.raised # ""
       THEN /\ offspring' = r.inds
            /\ UNCHANGED <<pop, gen>>
       ELSE /\ \E chosen \in {selNSGA2(pop \o r.inds, n_populacao)} : pop' = renumerar(chosen)
            /\ offspring' = <<>>
            /\ gen' = gen + 1

Selecionar ==
    /\ pc = "geracao"
    /\ erro = ""
    /\ gen < n_geracoes
    /\ Len(offspring) = n_populacao
    /\ \E r \in {avaliar_invalidos(offspring, 1, cache_rotas, gdf_bairros, grafo,
                                    nos_grafo_multipoint)} :
        GeracaoSelecionada(r)
    /\ UNCHANGED <<gdf_vias, gdf_pontos_articulacao, gdf_bairros, grafo, pc, chamada,
                   lista_caminhos, gdf_rotas, nos_grafo_multipoint, args, ret,
                   n_populacao, n_geracoes, pareto_front, melhor_ind, gdf_final>>
    /\ UNCHANGED vars_wf

\* The loop of eaMuPlusLambda is over: rodar_algoritmo returns pop.
Retornar ==
    /\ pc = "geracao"
    /\ erro = ""
    /\ gen = n_geracoes
    /\ pc' = "fim"
    /\ UNCHANGED <<gdf_vias, gdf_pontos_articulacao, gdf_bairros, grafo, chamada,
                   lista_caminhos, gdf_rotas, nos_grafo_multipoint, cache_rotas, erro, args, ret>>
    /\ UNCHANGED vars_ag
    /\ UNCHANGED vars_wf

\* extrair_melhor_solucao(pop) on the population rodar_algoritmo returned.
SolucaoExtraida(r) ==
    /\ pareto_front' = r.pareto_front
    /\ melhor_ind' = r.melhor_ind
    /\ gdf_final' = r.gdf_final
    /\ cache_rotas' = r.cache
    /\ erro' = r.raised

ExtrairMelhorSolucao ==
    /\ pc = "fim"
    /\ erro = ""
    /\ \E r \in {extrair_melhor_solucao(pop, cache_rotas, gdf_bairros, grafo,
                                         nos_grafo_multipoint)} :
        SolucaoExtraida(r)
    /\ pc' = "extraido"
    /\ UNCHANGED <<gdf_vias, gdf_pontos_articulacao, gdf_bairros, grafo, chamada,
                   lista_caminhos, gdf_rotas, nos_grafo_multipoint, args, ret,
                   pop, offspring, gen, n_populacao, n_geracoes>>
    /\ UNCHANGED vars_wf

NextAG ==
    \/ CriarGrafoPonderado
    \/ IniciarOtimizador
    \/ RodarAlgoritmo
    \/ Cruzar
    \/ Mutar
    \/ Reproduzir
    \/ Selecionar
    \/ Retornar
    \/ ExtrairMelhorSolucao

SpecAG == InitAG /\ [][NextAG]_vars

(***************************************************************************)
(* encontrar_caminho_minimo over a layer of five neighbourhoods            *)
(***************************************************************************)
\* A neighbourhood row whose geometry is a point.
BairroPonto(nome, c) ==
    [name |-> nome, centroid |-> c, tipo_polo |-> "Nenhum", area |-> 0, geom_type |-> "Point",
     meio_lado |-> 0]

\* Two neighbourhoods at the ends of the network, two by its middle
\* junction, and a row that is no polygon.
BairrosLote ==
    <<Bairro(" Centro ", <<2000, 2000>>, "Consolidado"),
      Bairro("Meio", <<100000, 2000>>, "Nenhum"),
      Bairro("Vila", <<98000, 2000>>, "Nenhum"),
      Bairro("Norte ", <<198000, 2000>>, "Emergente"),
      BairroPonto("Marco", <<100000, 38000>>)>>

EntradasLote ==
    { [vias |-> v, pontos |-> ArticulacaoRotas, bairros |-> BairrosLote] : v \in ViasRotas }

InitLote == InitCom(EntradasLote)

NextLote ==
    \/ CriarGrafoPonderado
    \/ EncontrarCaminhoMinimo

SpecLote == InitLote /\ [][NextLote]_vars

(***************************************************************************)
(* criar_grafo_ponderado over roads of any direction code                  *)
(***************************************************************************)
\* A road of two segments, a road with a repeated vertex (a segment of
\* zero length), and a road whose geometry is not valid.
LinhasVias ==
    { <<(<<0, 0>>), (<<10000, 0>>), (<<10000, 10000>>)>>,
      <<(<<0, 0>>), (<<0, 0>>), (<<10000, 0>>)>>,
      <<(<<0, 0>>), (<<0, 0>>)>> }

\* The values of the column DIR with their Python type: the three codes
\* criacao_arestas knows, another integer, 1.0, "1" and None (held as 0).
CodigosDeDirecao ==
    { [valor |-> d, tipo |-> "int"] : d \in Direcoes \cup {2} }
        \cup { [valor |-> 1, tipo |-> "float"], [valor |-> 1, tipo |-> "str"],
               [valor |-> 0, tipo |-> "NoneType"] }

ViaDeCodigo(linha, codigo, id) ==
    [geometry |-> linha, DIR |-> codigo.valor, ID |-> id,
     tipos |-> [DIR |-> codigo.tipo, ID |-> "int"]]

ViasDeCodigo ==
    UNION { { [k \in 1..n |-> ViaDeCodigo(f[k][1], f[k][2], k)] :
                f \in [1..n -> LinhasVias \X CodigosDeDirecao] } : n \in 1..MaxVias }

EntradasVias ==
    { [vias |-> v, pontos |-> ArticulacaoRotas, bairros |-> BairrosRotas] : v \in ViasDeCodigo }

InitVias == InitCom(EntradasVias)

NextVias ==
    \/ CriarGrafoPonderado
    \/ IniciarOtimizador

SpecVias == InitVias /\ [][NextVias]_vars

(***************************************************************************)
(* encontrar_no_mais_proximo over node sets and query points               *)
(***************************************************************************)
\* The most nodes of a queried node set.
MaxNos == 2

\* The corners of a square of 100 m.
NosDaGrade == {<<0, 0>>, <<10000, 0>>, <<0, 10000>>, <<10000, 10000>>}

\* The node sets: the distinct nodes of a graph in the order it holds them.
ConjuntosDeNos ==
    UNION { {f \in [1..n -> NosDaGrade] : \A i, j \in 1..n : i # j => f[i] # f[j]} :
              n \in 0..MaxNos }

\* Query points: halfway between two nodes, on a node, inside and outside
\* the square.
PontosDeConsulta ==
    {<<5000, 0>>, <<10000, 10000>>, <<2000, 3000>>, <<4000, 6000>>, <<9000, 1000>>,
     <<0 - 5000, 2000>>, <<5000, 5000>>}

InitNo ==
    /\ gdf_vias = <<>>
    /\ gdf_pontos_articulacao = <<>>
    /\ gdf_bairros = <<>>
    /\ grafo = GrafoVazio
    /\ pc = "no"
    /\ chamada = SemChamada
    /\ lista_caminhos = <<>>
    /\ gdf_rotas = <<>>
    /\ nos_grafo_multipoint \in ConjuntosDeNos
    /\ cache_rotas = <<>>
    /\ erro = ""
    /\ args \in PontosDeConsulta
    /\ ret = <<>>
    /\ SemAG
    /\ SemWorkflow

\* The call returned a node or raised.
NoEncontrado(r) ==
    /\ ret' = r.no
    /\ erro' = r.raised

\* A call encontrar_no_mais_proximo(args, nos_grafo_multipoint).
EncontrarNoMaisProximo ==
    /\ pc = "no"
    /\ NoEncontrado(no_mais_proximo_ou_erro(args, nos_grafo_multipoint))
    /\ pc' = "no_encontrado"
    /\ UNCHANGED <<gdf_vias, gdf_pontos_articulacao, gdf_bairros, grafo, chamada, lista_caminhos,
                   gdf_rotas, nos_grafo_multipoint, cache_rotas, args>>
    /\ UNCHANGED vars_ag
    /\ UNCHANGED vars_wf

NextNo == EncontrarNoMaisProximo

SpecNo == InitNo /\ [][NextNo]_vars

(***************************************************************************)
(* ModeloReset (workflow.py): the layers it holds and the calls that load, *)
(* classify and route them                                                 *)
(***************************************************************************)
\* crs_padrao and crs_projetado of a ModeloReset built with the defaults.
CrsPadrao == "EPSG:4326"

CrsProjetado == "EPSG:31983"

\* self.camadas[nome] = valor
com_camada(c, nome, valor) ==
    [k \in DOMAIN c \cup {nome} |-> IF k = nome THEN valor ELSE c[k]]

\* ModeloReset.__init__: camadas = {}; camadas["bairros"] = None.
camadas_iniciais == com_camada(SemCamadas, "bairros", NoneType)

\* The message of the ValueError gerar_rotas_otimizadas raises on a missing layer.
ErroCamadasNecessarias == "ValueError: Camadas 'bairros', 'vias' e 'pontos_articulacao' sao necessarias"

\* A classification that marks the named rows and leaves the others as they were.
polos_planejados_sem_reset(linhas, nomes) ==
    [k \in 1..Len(linhas) |->
        [linhas[k] EXCEPT !.tipo_polo = IF linhas[k].name \in nomes THEN "Planejado" ELSE @]]

\* set_polos_planejados on the rows of a layer: every row "Nenhum", then
\* "Planejado" where name is one of args (Series.isin, an exact match).
polos_planejados(linhas, nomes) ==
    [k \in 1..Len(linhas) |->
        [linhas[k] EXCEPT !.tipo_polo = IF linhas[k].name \in nomes THEN "Planejado" ELSE "Nenhum"]]

\* set_polos_planejados(*args): [raised, camadas]. camadas.get gives an empty
\* GeoDataFrame when the key is missing; None has no attribute empty.
set_polos_planejados(c, nomes) ==
    IF "bairros" \notin DOMAIN c THEN [raised |-> "", camadas |-> c]
    ELSE IF c["bairros"].tipo = "NoneType" THEN [raised |-> "AttributeError", camadas |-> c]
    ELSE IF Len(c["bairros"].linhas) = 0 THEN [raised |-> "", camadas |-> c]
    ELSE [raised |-> "",
          camadas |-> com_camada(c, "bairros",
                                 Camada(c["bairros"].crs,
                                        polos_planejados(c["bairros"].linhas, nomes)))]

\* One round of the loop of _projetar_camadas_para_analise, after the rounds
\* that gave r: [raised, camadas].
projetar_camada(r, nome_camada) ==
    IF r.raised # "" \/ nome_camada \notin DOMAIN r.camadas THEN r
    ELSE IF r.camadas[nome_camada].tipo = "NoneType"
    THEN [raised |-> "AttributeError", camadas |-> r.camadas]
    ELSE [raised |-> "",
          camadas |-> com_camada(r.camadas, nome_camada,
                                 Camada(CrsProjetado, r.camadas[nome_camada].linhas))]

\* _projetar_camadas_para_analise: [raised, camadas].
projetar_camadas_para_analise(c) ==
    projetar_camada(
        projetar_camada(projetar_camada([raised |-> "", camadas |-> c], "bairros"), "vias"),
        "pontos_articulacao")

\* The road joins some neighbourhood polygon (sjoin, predicate="intersects").
via_intersecta(via, bairros) ==
    \E b \in 1..Len(bairros) :
        /\ bairros[b].geom_type = "Polygon"
        /\ intersects(via.geometry, bairros[b])

\* filtrar_vias_por_bairros: the inner join keeps a road once for each
\* neighbourhood it meets, and drop_duplicates(subset="ID") keeps the first
\* row of every ID.
filtrar_vias_por_bairros(vias, bairros) ==
    LET juntas == SelectSeq(vias, LAMBDA v : via_intersecta(v, bairros))
        Primeira(k) == \A j \in 1..(k - 1) : juntas[j].ID # juntas[k].ID
        Kept == {k \in 1..Len(juntas) : Primeira(k)}
        RECURSIVE Manter(_)
        Manter(k) == IF k > Len(juntas) THEN <<>>
                     ELSE IF k \in Kept THEN <<juntas[k]>> \o Manter(k + 1)
                     ELSE Manter(k + 1)
    IN  Manter(1)

\* What gerar_rotas_otimizadas leaves: [raised, camadas, grafo].
rotas_otimizadas(raised, c, g) == [raised |-> raised, camadas |-> c, grafo |-> g]

\* gerar_rotas_otimizadas from the IDA batch on, given the VOLTA batch.
gerar_ida(c, g, volta, ida) ==
    IF ida.raised # "" THEN rotas_otimizadas(ida.raised, c, g)
    ELSE rotas_otimizadas("",
             com_camada(com_camada(c, "caminhos_ida", Camada(CrsProjetado, ida.rotas)),
                        "rotas_concatenadas", Camada(CrsProjetado, volta.rotas \o ida.rotas)),
             g)

\* gerar_rotas_otimizadas from the VOLTA batch on.
gerar_volta(c, g, bairros_proj, bairro_central, volta) ==
    IF volta.raised # "" THEN rotas_otimizadas(volta.raised, c, g)
    ELSE gerar_ida(com_camada(c, "caminhos_volta", Camada(CrsProjetado, volta.rotas)), g, volta,
                   encontrar_caminho_minimo(bairros_proj, g, bairro_central, "IDA"))

\* gerar_rotas_otimizadas with the graph criar_grafo_ponderado returned:
\* "if not self.grafo" is true of a graph without nodes.
gerar_caminhos(c, g, bairros_proj, bairro_central) ==
    IF Len(g.nodes) = 0 THEN rotas_otimizadas("Exception", c, g)
    ELSE gerar_volta(c, g, bairros_proj, bairro_central,
                     encontrar_caminho_minimo(bairros_proj, g, bairro_central, "VOLTA"))

\* gerar_rotas_otimizadas from the graph on, with the filtered roads stored.
gerar_grafo(c, g_antes, vias_filtradas, pontos_art_proj, bairros_proj, bairro_central, raised) ==
    IF raised # "" THEN rotas_otimizadas(raised, c, g_antes)
    ELSE gerar_caminhos(c, criar_grafo_ponderado(vias_filtradas, pontos_art_proj, bairros_proj),
                        bairros_proj, bairro_central)

\* gerar_rotas_otimizadas from the filter on, with the layers projected.
gerar_filtradas(c, g_antes, bairro_central, vias_filtradas) ==
    gerar_grafo(com_camada(c, "vias_filtradas", Camada(CrsProjetado, vias_filtradas)), g_antes,
                vias_filtradas, c["pontos_articulacao"].linhas, c["bairros"].linhas,
                bairro_central,
                erro_do_grafo(vias_filtradas, c["pontos_articulacao"].linhas, c["bairros"].linhas))

\* gerar_rotas_otimizadas past its guard, with the outcome p of the projection.
gerar_projetadas(p, g_antes, bairro_central) ==
    IF p.raised # "" THEN rotas_otimizadas(p.raised, p.camadas, g_antes)
    ELSE gerar_filtradas(p.camadas, g_antes, bairro_central,
                         filtrar_vias_por_bairros(p.camadas["vias"].linhas,
                                                  p.camadas["bairros"].linhas))

\* The guard of gerar_rotas_otimizadas: all(k in self.camadas for k in camadas_necessarias).
camadas_necessarias == {"bairros", "vias", "pontos_articulacao"}

\* gerar_rotas_otimizadas(bairro_central): [raised, camadas, grafo].
gerar_rotas_otimizadas(c, g_antes, bairro_central) ==
    IF ~(camadas_necessarias \subseteq DOMAIN c)
    THEN rotas_otimizadas(ErroCamadasNecessarias, c, g_antes)
    ELSE gerar_projetadas(projetar_camadas_para_analise(c), g_antes, bairro_central)

\* Neighbourhood polygons wide enough to meet the roads that pass them.
BairroLargo(nome, c, tipo) == BairroQuadrado(nome, c, tipo, 3000)

\* The neighbourhood layers a shapefile holds (the empty layer among them),
\* with the classes an earlier classification left.
BairrosWorkflow ==
    { <<>>,
      <<BairroLargo(" Centro ", <<2000, 2000>>, "Consolidado"),
        BairroLargo("Norte ", <<198000, 2000>>, "Emergente")>>,
      <<BairroLargo(" Centro ", <<2000, 2000>>, "Planejado"),
        BairroLargo("Norte ", <<198000, 2000>>, "Emergente"),
        BairroLargo("Sul", <<100000, 38000>>, "Consolidado")>> }

\* The road layers a shapefile holds: a road through both ends, the same
\* with a road outside every neighbourhood, and that road alone.
ViasWorkflow ==
    { <<[geometry |-> <<(<<0, 0>>), (<<100000, 0>>), (<<200000, 0>>)>>, DIR |-> 0, ID |-> 1]>>,
      <<[geometry |-> <<(<<0, 0>>), (<<100000, 0>>), (<<200000, 0>>)>>, DIR |-> 1, ID |-> 1],
        [geometry |-> <<(<<100000, 10000>>), (<<100000, 20000>>)>>, DIR |-> 0, ID |-> 2]>>,
      <<[geometry |-> <<(<<100000, 10000>>), (<<100000, 20000>>)>>, DIR |-> 0, ID |-> 1]>> }

\* The articulation layers a KML holds.
PontosWorkflow == { <<>>, ArticulacaoRotas }

\* The names handed to set_polos_planejados.
NomesPlanejados == { {}, {" Centro "}, {"Centro"}, {"Norte ", "Sul"} }

InitWorkflow ==
    /\ gdf_vias = <<>>
    /\ gdf_pontos_articulacao = <<>>
    /\ gdf_bairros = <<>>
    /\ grafo = GrafoVazio
    /\ pc = "modelo"
    /\ chamada = SemChamada
    /\ lista_caminhos = <<>>
    /\ gdf_rotas = <<>>
    /\ nos_grafo_multipoint = <<>>
    /\ cache_rotas = <<>>
    /\ erro = ""
    /\ args = SemArgs
    /\ ret = SemRet
    /\ SemAG
    /\ camadas = camadas_iniciais

\* Where a ModeloReset is: just constructed, or past its last call.
EstadosDoModelo == {"modelo", "base", "vias", "pontos", "polos", "rotas"}

\* What every call on the ModeloReset leaves alone.
SoOModelo ==
    /\ UNCHANGED <<gdf_vias, gdf_pontos_articulacao, gdf_bairros, chamada, lista_caminhos,
                   gdf_rotas, nos_grafo_multipoint, cache_rotas, ret>>
    /\ UNCHANGED vars_ag

\* carregar_dados_base(path_bairros, epsg_bairros): without a path nothing
\* is loaded; with a path and no EPSG code the call raises.
CarregarDadosBase ==
    /\ pc \in EstadosDoModelo
    /\ erro = ""
    /\ \/ UNCHANGED <<camadas, erro>>
       \/ /\ erro' = "ValueError"
          /\ UNCHANGED camadas
       \/ \E linhas \in BairrosWorkflow :
            /\ camadas' = com_camada(camadas, "bairros", Camada(CrsPadrao, linhas))
            /\ UNCHANGED erro
    /\ pc' = "base"
    /\ args' = SemArgs
    /\ UNCHANGED grafo
    /\ SoOModelo

\* carregar_rede_viaria(path_vias)
CarregarRedeViaria ==
    /\ pc \in EstadosDoModelo
    /\ erro = ""
    /\ \E linhas \in ViasWorkflow :
        camadas' = com_camada(camadas, "vias", Camada(CrsPadrao, linhas))
    /\ pc' = "vias"
    /\ args' = SemArgs
    /\ UNCHANGED <<grafo, erro>>
    /\ SoOModelo

\* carregar_pontos_articulacao(path_pontos)
CarregarPontosArticulacao ==
    /\ pc \in EstadosDoModelo
    /\ erro = ""
    /\ \E linhas \in PontosWorkflow :
        camadas' = com_camada(camadas, "pontos_articulacao", Camada(CrsPadrao, linhas))
    /\ pc' = "pontos"
    /\ args' = SemArgs
    /\ UNCHANGED <<grafo, erro>>
    /\ SoOModelo

\* set_polos_planejados returned r.
PolosDefinidos(r) ==
    /\ camadas' = r.camadas
    /\ erro' = r.raised

\* set_polos_planejados(*args)
SetPolosPlanejados ==
    /\ pc \in EstadosDoModelo
    /\ erro = ""
    /\ \E nomes \in NomesPlanejados :
        /\ args' = [polos |-> nomes]
        /\ PolosDefinidos(set_polos_planejados(camadas, nomes))
    /\ pc' = "polos"
    /\ UNCHANGED grafo
    /\ SoOModelo

\* gerar_rotas_otimizadas returned r.
RotasGeradas(r) ==
    /\ camadas' = r.camadas
    /\ grafo' = r.grafo
    /\ erro' = r.raised

\* gerar_rotas_otimizadas(bairro_central)
GerarRotasOtimizadas ==
    /\ pc \in EstadosDoModelo
    /\ erro = ""
    /\ \E bairro_central \in NomesCentrais :
        /\ args' = [bairro_central |-> bairro_central]
        /\ \E r \in {gerar_rotas_otimizadas(camadas, grafo, bairro_central)} : RotasGeradas(r)
    /\ pc' = "rotas"
    /\ SoOModelo

NextWorkflow ==
    \/ CarregarDadosBase
    \/ CarregarRedeViaria
    \/ CarregarPontosArticulacao
    \/ SetPolosPlanejados
    \/ GerarRotasOtimizadas

SpecWorkflow == InitWorkflow /\ [][NextWorkflow]_vars

(***************************************************************************)
(* The operators of the toolbox over individuals: gerar_individuo,         *)
(* mutacao_variavel and cxTwoPoint, applied one after the other            *)
(***************************************************************************)
\* The most rounds in which the results of an operator are varied again.
MaxPassos == 2

\* The outcomes of the draws followed: lengths at and next to the limits,
\* genes alternating between two values, r on both sides of a threshold,
\* places at the ends, cut points at the ends.
TamanhosDoToolbox == {TamanhoMinimo, TamanhoMinimo + 1, TamanhoMaximo}

PadroesSorteados ==
    {[j \in 1..2 |-> gerar_gene_rota(lista_de_indices(BairrosAG), par[j])] :
        par \in (sample2(Len(BairrosAG)) \X sample2(Len(BairrosAG)))
                \cap {<<(<<1, 2>>), (<<1, 2>>)>>, <<(<<1, 3>>), (<<2, 3>>)>>}}

SorteiosDoToolbox == {0, LimiarRemover - 1, LimiarRemover, LimiarAdicionar - 1, LimiarAdicionar, 99}

IndicesDoToolbox(tamanho) == {0, 1, tamanho - 1}

GenesDoToolbox ==
    {gerar_gene_rota(lista_de_indices(BairrosAG), p) :
        p \in sample2(Len(BairrosAG)) \cap {<<3, 1>>, <<2, 1>>}}

CortesDoToolbox(size) == {1, 2, size} \X {1, size - 1}

InitMutacao ==
    /\ gdf_vias = <<>>
    /\ gdf_pontos_articulacao = <<>>
    /\ gdf_bairros = BairrosAG
    /\ grafo = GrafoVazio
    /\ pc = "toolbox"
    /\ chamada = SemChamada
    /\ lista_caminhos = <<>>
    /\ gdf_rotas = <<>>
    /\ nos_grafo_multipoint = <<>>
    /\ cache_rotas = <<>>
    /\ erro = ""
    /\ args = SemArgs
    /\ ret = SemRet
    /\ SemAG
    /\ SemWorkflow

\* toolbox.individual(): one more individual, while there are fewer than two.
GerarIndividuo ==
    /\ pc = "toolbox"
    /\ gen = 0
    /\ Len(pop) < 2
    /\ \E tamanho \in TamanhosDoToolbox, padrao \in PadroesSorteados :
        pop' = Append(pop,
                      Individual(gerar_individuo(tamanho,
                                                 [j \in 1..tamanho |-> padrao[1 + (j % 2)]]),
                                 <<>>, novo_id(pop)))
    /\ UNCHANGED <<gdf_vias, gdf_pontos_articulacao, gdf_bairros, grafo, pc, chamada,
                   lista_caminhos, gdf_rotas, nos_grafo_multipoint, cache_rotas, erro, args, ret,
                   offspring, gen, n_populacao, n_geracoes, pareto_front, melhor_ind, gdf_final>>
    /\ UNCHANGED vars_wf

\* toolbox.mutate on a clone of pop[i], as varOr calls it: pop keeps the
\* individual cloned, offspring the mutated clone, args the draws.
MutacaoVariavel ==
    /\ pc = "toolbox"
    /\ \E i \in 1..Len(pop), r \in SorteiosDoToolbox, gene \in GenesDoToolbox :
        \E idx \in IndicesDoToolbox(Len(pop[i].genes)) :
            /\ args' = [r |-> r, idx |-> idx, gene |-> gene]
            /\ pop' = <<pop[i]>>
            /\ offspring' = <<mutacao(pop, i, r, idx, gene, novo_id(pop))>>
    /\ pc' = "mutado"
    /\ UNCHANGED <<gdf_vias, gdf_pontos_articulacao, gdf_bairros, grafo, chamada,
                   lista_caminhos, gdf_rotas, nos_grafo_multipoint, cache_rotas, erro, ret,
                   gen, n_populacao, n_geracoes, pareto_front, melhor_ind, gdf_final>>
    /\ UNCHANGED vars_wf

\* toolbox.mate on clones of pop[1] and pop[2]: offspring keeps both children.
CxTwoPoint ==
    /\ pc = "toolbox"
    /\ Len(pop) = 2
    /\ \E c \in CortesDoToolbox(Min(Len(pop[1].genes), Len(pop[2].genes))) :
        /\ args' = [a |-> c[1], b |-> c[2]]
        /\ offspring' = <<Individual(cxTwoPoint(pop[1].genes, pop[2].genes, c[1], c[2])[1], <<>>, 3),
                          Individual(cxTwoPoint(pop[1].genes, pop[2].genes, c[1], c[2])[2], <<>>, 4)>>
    /\ pc' = "cruzado"
    /\ UNCHANGED <<gdf_vias, gdf_pontos_articulacao, gdf_bairros, grafo, chamada,
                   lista_caminhos, gdf_rotas, nos_grafo_multipoint, cache_rotas, erro, ret,
                   pop, gen, n_populacao, n_geracoes, pareto_front, melhor_ind, gdf_final>>
    /\ UNCHANGED vars_wf

\* The results of the operator become the individuals the next one varies.
Continuar ==
    /\ pc \in {"mutado", "cruzado"}
    /\ gen < MaxPassos
    /\ pop' = renumerar(offspring)
    /\ offspring' = <<>>
    /\ gen' = gen + 1
    /\ pc' = "toolbox"
    /\ UNCHANGED <<gdf_vias, gdf_pontos_articulacao, gdf_bairros, grafo, chamada,
                   lista_caminhos, gdf_rotas, nos_grafo_multipoint, cache_rotas, erro, args, ret,
                   n_populacao, n_geracoes, pareto_front, melhor_ind, gdf_final>>
    /\ UNCHANGED vars_wf

NextMutacao ==
    \/ GerarIndividuo
    \/ MutacaoVariavel
    \/ CxTwoPoint
    \/ Continuar

SpecMutacao == InitMutacao /\ [][NextMutacao]_vars

(***************************************************************************)
(* Properties of the built graph                                           *)
(***************************************************************************)
Arestas == {grafo.edges[k] : k \in 1..Len(grafo.edges)}

\* The relevant (emerging or consolidated) rows of the neighbourhood layer.
Ancoras == {gdf_bairros[k] : k \in {j \in 1..Len(gdf_bairros) :
                                        gdf_bairros[j].tipo_polo \in {"Emergente", "Consolidado"}}}

\* The least distance from m to an articulation point.
DistArticulacao(m) ==
    LET ds == {distance(gdf_pontos_articulacao[k], m) : k \in 1..Len(gdf_pontos_articulacao)}
    IN  CHOOSE d \in ds : \A x \in ds : d <= x

\* The anchors nearest to m.
AncorasMaisProximas(m) ==
    {b \in Ancoras : \A o \in Ancoras : distance(b.centroid, m) <= distance(o.centroid, m)}

\* No anchor within the widest pole radius (2000 m) of m: no pole discount.
SemDescontoPolo(m) == \A b \in Ancoras : distance(b.centroid, m) > 200000

\* raw * (1 - 0.4 * max(0, 1 - dist / 1000)), dist the least articulation distance of m.
PesoSoArticulacao(raw, m) == MulFrac(raw, Um - 8 * Max(0, 100000 - DistArticulacao(m)))

\* The non-degenerate elementary segments <<a, b>> of the road vias[k], in
\* digitized order, one per position.
Segmentos(via) ==
    {i \in 1..(Len(via.geometry) - 1) : via.geometry[i] # via.geometry[i + 1]}

\* C1 (as claimed): every edge of the built graph has
\* 0.1 <= weight <= original_weight.
C1_PesoEntrePisoEOriginal ==
    \A e \in Arestas : PesoMinimo <= e.weight /\ e.weight <= e.original_weight

\* C1 (amended): every edge of the built graph has
\* 0.1 <= weight <= max(original_weight, 0.1); so weight <= original_weight
\* for every segment at least 0.1 long, and weight = 0.1 for a shorter one.
C1_PesoEntrePisoEMaximo ==
    \A e \in Arestas :
        /\ PesoMinimo <= e.weight
        /\ e.weight <= Max(e.original_weight, PesoMinimo)
        /\ e.original_weight < PesoMinimo => e.weight = PesoMinimo

\* A graph holding an edge longer than the floor whose discounted weight is the floor.
C1_Witness ==
    /\ pc = "grafo"
    /\ \E e \in Arestas : e.original_weight > PesoMinimo /\ e.weight = PesoMinimo

\* C5: for every bidirectional road (DIR = 0) and every non-degenerate
\* elementary segment (u, v) of it, the graph has an edge u -> v and an edge
\* v -> u of that road with equal weight and equal original_weight.
C5_BidirecionalSimetrico ==
    pc # "inicio" =>
        \A k \in 1..Len(gdf_vias) :
            (gdf_vias[k].DIR = 0 /\ geometria_valida(gdf_vias[k].geometry)) =>
                \A i \in Segmentos(gdf_vias[k]) :
                    \E ida \in Arestas, volta \in Arestas :
                        /\ ida.u = gdf_vias[k].geometry[i] /\ ida.v = gdf_vias[k].geometry[i + 1]
                        /\ volta.u = ida.v /\ volta.v = ida.u
                        /\ ida.via_id = gdf_vias[k].ID /\ volta.via_id = gdf_vias[k].ID
                        /\ ida.weight = volta.weight
                        /\ ida.original_weight = volta.original_weight

\* A built graph of a bidirectional road whose edges carry a discount.
C5_Witness ==
    /\ pc = "grafo"
    /\ \E k \in 1..Len(gdf_vias) : gdf_vias[k].DIR = 0 /\ Segmentos(gdf_vias[k]) # {}
    /\ \E e \in Arestas : e.weight < e.original_weight

\* The edges of road id from a to b in the graph, and those the direction code calls for.
NArestas(id, a, b) ==
    Cardinality({j \in 1..Len(grafo.edges) :
        grafo.edges[j].via_id = id /\ grafo.edges[j].u = a /\ grafo.edges[j].v = b})

NArestasEsperado(id, a, b) ==
    LET vs == {k \in 1..Len(gdf_vias) : gdf_vias[k].ID = id /\ geometria_valida(gdf_vias[k].geometry)}
        N(k) ==
            (IF gdf_vias[k].DIR \in {0, 1}
             THEN Cardinality({i \in Segmentos(gdf_vias[k]) :
                     gdf_vias[k].geometry[i] = a /\ gdf_vias[k].geometry[i + 1] = b})
             ELSE 0)
            + (IF gdf_vias[k].DIR \in {0, -1}
               THEN Cardinality({i \in Segmentos(gdf_vias[k]) :
                       gdf_vias[k].geometry[i] = b /\ gdf_vias[k].geometry[i + 1] = a})
               ELSE 0)
    IN  IF vs = {} THEN 0 ELSE N(CHOOSE k \in vs : TRUE)

PontosDasVias ==
    UNION {{gdf_vias[k].geometry[i] : i \in 1..Len(gdf_vias[k].geometry)} : k \in 1..Len(gdf_vias)}

\* C6: a segment digitized from u to v adds only u -> v on a forward road
\* (DIR = 1), only v -> u on a reverse road (DIR = -1), both on a
\* bidirectional road (DIR = 0), and the graph holds no other edge.
C6_ArestasPorDirecao ==
    pc # "inicio" =>
        /\ \A k \in 1..Len(gdf_vias) : \A a \in PontosDasVias, b \in PontosDasVias :
              NArestas(gdf_vias[k].ID, a, b) = NArestasEsperado(gdf_vias[k].ID, a, b)
        /\ \A e \in Arestas : NArestasEsperado(e.via_id, e.u, e.v) > 0

\* A built graph with a forward road and a reverse road.
C6_Witness ==
    /\ pc = "grafo"
    /\ \E k1, k2 \in 1..Len(gdf_vias) :
        /\ gdf_vias[k1].DIR = 1 /\ gdf_vias[k2].DIR = -1
        /\ \E e1, e2 \in Arestas : e1.via_id = gdf_vias[k1].ID /\ e2.via_id = gdf_vias[k2].ID

\* C7 (as claimed): without a pole discount, an edge weighs
\* raw * (1 - 0.4 * max(0, 1 - dist / 1000)): the raw length when every
\* articulation point is farther than 1000 m from the midpoint, 0.6 * raw
\* when one lies on the midpoint.
C7_DescontoArticulacao ==
    \A e \in Arestas :
        LET m == interpolate_meio(e.u, e.v)
        IN  SemDescontoPolo(m) =>
                /\ e.weight = PesoSoArticulacao(e.original_weight, m)
                /\ DistArticulacao(m) > 100000 => e.weight = e.original_weight
                /\ DistArticulacao(m) = 0 => e.weight = (6 * e.original_weight) \div 10

\* C7 (amended): the same weights, raised to the floor 0.1 when they fall below it.
C7_DescontoArticulacaoComPiso ==
    \A e \in Arestas :
        LET m == interpolate_meio(e.u, e.v)
        IN  SemDescontoPolo(m) =>
                /\ e.weight = Max(PesoSoArticulacao(e.original_weight, m), PesoMinimo)
                /\ DistArticulacao(m) > 100000 => e.weight = Max(e.original_weight, PesoMinimo)
                /\ DistArticulacao(m) = 0 => e.weight = Max((6 * e.original_weight) \div 10, PesoMinimo)

\* The 100 m bidirectional segment with an articulation point on its midpoint
\* and no pole nearby: both edges weigh 60 m.
C7_Witness ==
    /\ pc = "grafo"
    /\ \E ida \in Arestas, volta \in Arestas :
        /\ ida.u = <<0, 0>> /\ ida.v = <<10000, 0>> /\ volta.u = ida.v /\ volta.v = ida.u
        /\ SemDescontoPolo(<<5000, 0>>) /\ DistArticulacao(<<5000, 0>>) = 0
        /\ ida.original_weight = 10000 /\ ida.weight = 6000 /\ volta.weight = 6000

\* C8: every edge is weighted with the radius and cap of the class of the
\* neighbourhood whose centroid is nearest to the segment midpoint, among the
\* emerging and consolidated neighbourhoods.
C8_ClasseDoBairroMaisProximo ==
    \A e \in Arestas :
        LET m == interpolate_meio(e.u, e.v)
            pa == CHOOSE p \in {gdf_pontos_articulacao[k] : k \in 1..Len(gdf_pontos_articulacao)} :
                      distance(p, m) = DistArticulacao(m)
        IN  \E b \in AncorasMaisProximas(m) :
                e.weight = calcular_peso_atrativo(pa, m, b.centroid, e.original_weight, b.tipo_polo)

(***************************************************************************)
(* Properties of the combined discount                                     *)
(***************************************************************************)
\* floor(a * f / Um) for 0 <= a, f <= Um, by long multiplication in base 1000.
ProdFrac(a, f) ==
    LET a1 == a \div 1000
        a0 == a % 1000
        f1 == f \div 1000
        f0 == f % 1000
        alto == a1 * f1
        baixo == a1 * f0 + a0 * f1 + (a0 * f0) \div 1000
    IN  alto \div 2 + (1000 * (alto % 2) + baixo) \div 2000

\* C9: the combined discount d of d_a and d_p satisfies 0 <= d < 1 and
\* d >= max(d_a, d_p), and 1 - d = (1 - d_a) * (1 - d_p), which is
\* d = d_a + d_p - d_a * d_p, for every articulation distance, pole distance
\* and neighbourhood class.
C9_DescontoCombinado ==
    pc = "peso_calculado" =>
        /\ 0 <= ret.desconto_total
        /\ ret.desconto_total < Um
        /\ ret.desconto_total >= Max(ret.desconto_articulacao, ret.desconto_polo)
        /\ Um - ret.desconto_total = ProdFrac(Um - ret.desconto_articulacao, Um - ret.desconto_polo)

\* A call in which both discounts act.
C9_Witness ==
    /\ pc = "peso_calculado"
    /\ ret.desconto_articulacao > 0
    /\ ret.desconto_polo > 0
    /\ ret.desconto_total > Max(ret.desconto_articulacao, ret.desconto_polo)

(***************************************************************************)
(* Properties of the routes                                                *)
(***************************************************************************)
\* The nodes reachable from the set S along directed edges.
RECURSIVE Alcance(_)
Alcance(S) ==
    LET S2 == S \cup {e.v : e \in {x \in Arestas : x.u \in S}}
    IN  IF S2 = S THEN S ELSE Alcance(S2)

Alcancavel(s, t) == t \in Alcance({s})

PesoDe(e, campo) == IF campo = "weight" THEN e.weight ELSE e.original_weight

\* Bellman-Ford: the least total of the attribute campo over the directed
\* walks of at most n more edges, as a function of the end node.
RECURSIVE MenorCusto(_, _, _)
MenorCusto(D, campo, n) ==
    IF n = 0 THEN D
    ELSE LET D2 == [v \in DOMAIN D |->
                      LET cs == {D[e.u] + PesoDe(e, campo) : e \in {x \in Arestas : x.v = v /\ D[x.u] < Inf}}
                                \cup {D[v]}
                      IN  CHOOSE c \in cs : \A x \in cs : c <= x]
         IN  MenorCusto(D2, campo, n - 1)

CustoMinimo(s, t, campo) ==
    MenorCusto([v \in NodeSet(grafo) |-> IF v = s THEN 0 ELSE Inf], campo, Len(grafo.nodes))[t]

\* The total of campo along the node sequence r, by the cheapest parallel edge of each step.
RECURSIVE CustoCaminho(_, _, _)
CustoCaminho(r, campo, i) ==
    IF i >= Len(r) THEN 0
    ELSE LET ws == {PesoDe(e, campo) : e \in {x \in Arestas : x.u = r[i] /\ x.v = r[i + 1]}}
         IN  (CHOOSE w \in ws : \A x \in ws : w <= x) + CustoCaminho(r, campo, i + 1)

\* r is a path of the graph from s to t of least total weight.
RotaMinima(r, s, t) ==
    /\ Len(r) >= 2
    /\ r[1] = s
    /\ r[Len(r)] = t
    /\ \A i \in 1..(Len(r) - 1) : \E e \in Arestas : e.u = r[i] /\ e.v = r[i + 1]
    /\ CustoCaminho(r, "weight", 1) = CustoMinimo(s, t, "weight")

Fonte(c) == IF c.sentido = "IDA" THEN c.no_origem ELSE c.no_destino

Alvo(c) == IF c.sentido = "IDA" THEN c.no_destino ELSE c.no_origem

\* The graph node a neighbourhood row resolves to.
NoDoBairro(k) == encontrar_no_mais_proximo(gdf_bairros[k].centroid, grafo.nodes)

\* C2: a route returned by _calcular_rota_individual is a path of the graph
\* from the source to the target (origin to destination for IDA, destination
\* to origin for VOLTA) whose total discounted weight is least among all
\* paths from source to target; so is every route in the optimizer's cache.
C2_RotaECaminhoMinimo ==
    /\ (pc = "rota" /\ chamada.resultado # Nenhuma) =>
            RotaMinima(chamada.resultado, Fonte(chamada), Alvo(chamada))
    /\ pc = "otimizador" =>
            \A par \in DOMAIN cache_rotas :
                cache_rotas[par].geom # Nenhuma =>
                    RotaMinima(cache_rotas[par].geom, NoDoBairro(par[1]), NoDoBairro(par[2]))

\* A returned route of three nodes that is not the shortest by raw length: the
\* discounts decided.
C2_Witness ==
    /\ pc = "rota"
    /\ Len(chamada.resultado) >= 3
    /\ CustoCaminho(chamada.resultado, "original_weight", 1)
         > CustoMinimo(Fonte(chamada), Alvo(chamada), "original_weight")

\* The rows a batch with this hub name skips, and the hub node.
HubLimpo(nome) == IF nome # "" THEN strip(nome) ELSE ""

Pulado(k, nome) ==
    \/ (HubLimpo(nome) # "" /\ strip(gdf_bairros[k].name) = HubLimpo(nome))
    \/ gdf_bairros[k].geom_type \notin {"Polygon", "MultiPolygon"}

NoCentral(nome) ==
    encontrar_no_mais_proximo(obter_ponto_central(gdf_bairros, nome).ponto, grafo.nodes)

\* The batches (hub name, direction) that return lista_caminhos as it stands.
Lotes ==
    {l \in NomesCentrais \X Sentidos :
        LET r == encontrar_caminho_minimo(gdf_bairros, grafo, l[1], l[2])
        IN  r.raised = "" /\ r.lista = lista_caminhos /\ r.rotas = gdf_rotas}

\* In batch l, the source and target of row k.
FonteLote(l, k) == IF l[2] = "IDA" THEN NoDoBairro(k) ELSE NoCentral(l[1])

AlvoLote(l, k) == IF l[2] = "IDA" THEN NoCentral(l[1]) ELSE NoDoBairro(k)

TemRota(k) == \E j \in 1..Len(lista_caminhos) : lista_caminhos[j].id[1] = k - 1

\* C3: when no directed path leads from the source to the target,
\* _calcular_rota_individual returns None and raises nothing; a batch then
\* still holds a route for every other row that has a path, and the optimizer
\* stores the pair without a route and goes on.
C3_SemCaminhoSemErro ==
    /\ pc = "rota" =>
        /\ erro = ""
        /\ ~Alcancavel(Fonte(chamada), Alvo(chamada)) => chamada.resultado = Nenhuma
    /\ (pc = "lote" /\ Len(grafo.nodes) > 0) =>
        /\ erro \in {"", "ValueError"}
        /\ erro = "" =>
            \E l \in Lotes : \A k \in 1..Len(gdf_bairros) :
                ~Pulado(k, l[1]) =>
                    /\ ~Alcancavel(FonteLote(l, k), AlvoLote(l, k)) => ~TemRota(k)
                    /\ (Alcancavel(FonteLote(l, k), AlvoLote(l, k))
                            /\ FonteLote(l, k) # AlvoLote(l, k)) => TemRota(k)
    /\ (pc = "otimizador" /\ Len(grafo.nodes) > 0) =>
        /\ erro = ""
        /\ \A par \in DOMAIN cache_rotas :
              ~Alcancavel(NoDoBairro(par[1]), NoDoBairro(par[2])) =>
                  cache_rotas[par] = [dist |-> Inf, bairros |-> {}, geom |-> Nenhuma]

\* A batch that found no path for one row and returned a route for another.
C3_Witness ==
    /\ pc = "lote"
    /\ erro = ""
    /\ Len(lista_caminhos) >= 1
    /\ \E l \in Lotes : \E k \in 1..Len(gdf_bairros) :
          ~Pulado(k, l[1]) /\ ~Alcancavel(FonteLote(l, k), AlvoLote(l, k))

\* C4: when origin and destination resolve to the same node the result is
\* None; every route a call returned, a batch collected or returned, or the
\* optimizer cached has at least two nodes.
C4_SemRotaTrivial ==
    /\ pc = "rota" =>
        /\ chamada.no_origem = chamada.no_destino => chamada.resultado = Nenhuma
        /\ chamada.resultado = Nenhuma \/ Len(chamada.resultado) >= 2
    /\ pc = "lote" =>
        /\ \A j \in 1..Len(lista_caminhos) : Len(lista_caminhos[j].geometry) >= 2
        /\ \A j \in 1..Len(gdf_rotas) : Len(gdf_rotas[j].geometry) >= 2
        /\ (erro = "" /\ Len(grafo.nodes) > 0) =>
              \E l \in Lotes : \A k \in 1..Len(gdf_bairros) :
                  NoDoBairro(k) = NoCentral(l[1]) => ~TemRota(k)
    /\ pc = "otimizador" =>
        \A par \in DOMAIN cache_rotas :
            /\ cache_rotas[par].geom = Nenhuma \/ Len(cache_rotas[par].geom) >= 2
            /\ NoDoBairro(par[1]) = NoDoBairro(par[2]) =>
                  cache_rotas[par] = [dist |-> Inf, bairros |-> {}, geom |-> Nenhuma]

\* The optimizer cached a pair of neighbourhoods that resolve to one node.
C4_Witness ==
    /\ pc = "otimizador"
    /\ \E par \in DOMAIN cache_rotas :
          NoDoBairro(par[1]) = NoDoBairro(par[2]) /\ cache_rotas[par].geom = Nenhuma

(***************************************************************************)
(* Properties of the subline filter                                        *)
(***************************************************************************)
\* The positions of the input routes that lie within no other input route.
NaoContidas ==
    {i \in 1..Len(lista_caminhos) :
        ~\E j \in 1..Len(lista_caminhos) :
            j # i /\ within_buffer(lista_caminhos[i].geometry, lista_caminhos[j].geometry)}

\* The k-th least element of the set S of numbers.
Kesimo(S, k) == CHOOSE i \in S : Cardinality({j \in S : j <= i}) = k

RotaA == <<(<<0, 0>>), (<<100, 100>>), (<<200, 200>>)>>

RotaB == <<(<<0, 0>>), (<<100, 100>>)>>

Geometrias(gdf) == [k \in 1..Len(gdf) |-> gdf[k].geometry]

\* C10: filtrar_sublinhas returns, in input order, exactly the input routes
\* whose geometry is not within the buffer of any other input route: with
\* A = [(0,0),(1,1),(2,2)] and B = [(0,0),(1,1)] it removes B and keeps A, a
\* route alone is kept although it lies within itself, the output is never
\* longer than the input, and an empty input is returned unchanged.
C10_FiltroDeSublinhas ==
    pc = "filtrado" =>
        /\ Len(gdf_rotas) = Cardinality(NaoContidas)
        /\ \A k \in 1..Len(gdf_rotas) : gdf_rotas[k] = lista_caminhos[Kesimo(NaoContidas, k)]
        /\ Len(gdf_rotas) <= Len(lista_caminhos)
        /\ lista_caminhos = <<>> => gdf_rotas = lista_caminhos
        /\ Len(lista_caminhos) = 1 => gdf_rotas = lista_caminhos
        /\ Geometrias(lista_caminhos) = <<RotaA, RotaB>> => gdf_rotas = <<lista_caminhos[1]>>
        /\ Geometrias(lista_caminhos) = <<RotaB, RotaA>> => gdf_rotas = <<lista_caminhos[2]>>

\* The filter ran on A and its sub-path B and returned A alone.
C10_Witness ==
    /\ pc = "filtrado"
    /\ Geometrias(lista_caminhos) = <<RotaA, RotaB>>
    /\ Geometrias(gdf_rotas) = <<RotaA>>

\* C11: filtrar_sublinhas is idempotent: applied to the layer it returned, it
\* returns that layer again, row for row.
C11_FiltroIdempotente ==
    pc = "refiltrado" => gdf_rotas = lista_caminhos

\* The second pass ran on a layer of two or more routes and removed none.
C11_Witness ==
    /\ pc = "refiltrado"
    /\ Len(lista_caminhos) >= 2
    /\ gdf_rotas = lista_caminhos

(***************************************************************************)
(* Properties of the individuals and of the operators that vary them       *)
(***************************************************************************)
\* Every individual at hand: the population and the offspring.
Individuos == {pop[k] : k \in 1..Len(pop)} \cup {offspring[k] : k \in 1..Len(offspring)}

\* C12: every individual has between 20 and 40 genes: as gerar_individuo
\* builds it, and after any sequence of mutacao_variavel and two-point
\* crossover applied to individuals within these limits.
C12_TamanhoDentroDosLimites ==
    \A ind \in Individuos : 20 <= Len(ind.genes) /\ Len(ind.genes) <= 40

\* An individual of 20 genes, itself the result of an operator, went
\* through a mutation whose draw asked for a removal, and one of 40 genes
\* through a mutation whose draw asked for one more gene.
C12_Witness ==
    /\ pc = "mutado"
    /\ gen >= 1
    /\ \/ Len(pop[1].genes) = 20 /\ args.r < 33 /\ Len(offspring[1].genes) = 21
       \/ Len(pop[1].genes) = 40 /\ args.r = 33 /\ Len(offspring[1].genes) = 40

\* The individual a mutation cloned and the clone it left.
Pai == pop[1].genes

Filho == offspring[1].genes

\* The three effects of a mutation, the genes it does not touch staying
\* where they were.
Removeu(idx) ==
    /\ Len(Filho) = Len(Pai) - 1
    /\ \A k \in 1..Len(Filho) : Filho[k] = Pai[IF k <= idx THEN k ELSE k + 1]

Acrescentou(gene) ==
    /\ Len(Filho) = Len(Pai) + 1
    /\ Filho[Len(Filho)] = gene
    /\ \A k \in 1..Len(Pai) : Filho[k] = Pai[k]

Alterou(idx, gene) ==
    /\ Len(Filho) = Len(Pai)
    /\ Filho[idx + 1] = gene
    /\ \A k \in 1..Len(Pai) : k # idx + 1 => Filho[k] = Pai[k]

\* The actions the limits allow on an individual of tamanho genes.
AcoesPermitidas(tamanho) ==
    (IF tamanho > 20 THEN {"remover"} ELSE {}) \cup (IF tamanho < 40 THEN {"adicionar"} ELSE {})
        \cup {"alterar"}

\* Of the hundred equally likely hundredths r can fall in, those that lead
\* to acao on an individual of tamanho genes.
Chances(acao, tamanho) == Cardinality({r \in Centesimos : ramo_da_mutacao(r, tamanho) = acao})

\* C13: a mutation does exactly one of three things, the other genes
\* staying as they were: with r < 0.33 and more than 20 genes it removes
\* the gene at idx; otherwise with r < 0.66 and fewer than 40 genes it
\* appends the new gene; otherwise it puts the new gene at idx.
C13_MutacaoUmaAcao ==
    pc = "mutado" =>
        IF args.r < 33 /\ Len(Pai) > 20 THEN Removeu(args.idx)
        ELSE IF args.r < 66 /\ Len(Pai) < 40 THEN Acrescentou(args.gene)
        ELSE Alterou(args.idx, args.gene)

\* C13 as stated: a mutation removes a gene (only above 20 genes), appends
\* one (only below 40) or alters one in place, the action being chosen
\* uniformly among those the limits allow.
C13_MutacaoUniforme ==
    pc = "mutado" =>
        /\ \/ Len(Pai) > 20 /\ \E idx \in 0..(Len(Pai) - 1) : Removeu(idx)
           \/ Len(Pai) < 40 /\ \E gene \in Genes(gdf_bairros) : Acrescentou(gene)
           \/ \E idx \in 0..(Len(Pai) - 1), gene \in Genes(gdf_bairros) : Alterou(idx, gene)
        /\ \A x, y \in AcoesPermitidas(Len(Pai)) :
               Chances(x, Len(Pai)) = Chances(y, Len(Pai))

\* A mutation removed the second gene of an individual whose genes differ.
C13_Witness ==
    /\ pc = "mutado"
    /\ Len(Filho) = Len(Pai) - 1
    /\ args.idx = 1
    /\ Pai[1] # Pai[2]

(***************************************************************************)
(* Properties of a run of the genetic algorithm                            *)
(***************************************************************************)
\* The graph the optimizer was built on has nodes.
GrafoComNos == Len(grafo.nodes) > 0

\* The run is past the first evaluation of the population.
PopulacaoPronta == pc \in {"geracao", "fim", "extraido"} /\ erro = ""

\* A pair of neighbourhoods has a route: their nearest nodes differ and
\* the second can be reached from the first.
Viavel(par) ==
    /\ NoDoBairro(par[1]) # NoDoBairro(par[2])
    /\ Alcancavel(NoDoBairro(par[1]), NoDoBairro(par[2]))

\* The sum, over the genes from k on, of the length of the route of the
\* gene, 100000 (in centimetres) standing for a route that does not exist.
RECURSIVE SomaDasRotas(_, _)
SomaDasRotas(genes, k) ==
    IF k > Len(genes) THEN 0
    ELSE (IF Viavel(genes[k]) THEN cache_rotas[genes[k]].dist ELSE 100000 * 100)
             + SomaDasRotas(genes, k + 1)

\* The neighbourhoods the routes of the genes touch.
BairrosTocados(genes) ==
    UNION {cache_rotas[genes[k]].bairros : k \in {j \in 1..Len(genes) : Viavel(genes[j])}}

\* C14: the fitness of an individual is (f1, f2) with f1 the sum over its
\* genes, each occurrence counted, of the length of the route, a gene
\* without a route (no path, or both ends on the same node) counting
\* 100000, and f2 = 1 - touched / total neighbourhoods (held in units of
\* 1 / total); a pair without a route is cached as such and never stops
\* the evaluation; f1 is finite and 0 <= f2 <= 1.
C14_Avaliacao ==
    GrafoComNos =>
        /\ \A par \in DOMAIN cache_rotas :
               IF Viavel(par)
               THEN cache_rotas[par].dist < Inf /\ cache_rotas[par].geom # Nenhuma
               ELSE cache_rotas[par] = [dist |-> Inf, bairros |-> {}, geom |-> Nenhuma]
        /\ PopulacaoPronta => \A k \in 1..Len(pop) : pop[k].fitness # <<>>
        /\ \A ind \in Individuos :
               ind.fitness # <<>> =>
                   /\ ind.fitness[1] = SomaDasRotas(ind.genes, 1)
                   /\ ind.fitness[2] = Len(gdf_bairros) - Cardinality(BairrosTocados(ind.genes))
                   /\ ind.fitness[1] < Inf
                   /\ 0 <= ind.fitness[2] /\ ind.fitness[2] <= Len(gdf_bairros)

\* An evaluated individual that holds a gene without a path and twice a
\* gene with a route.
C14_Witness ==
    /\ GrafoComNos
    /\ \E ind \in Individuos :
        /\ ind.fitness # <<>>
        /\ \E par \in {ind.genes[k] : k \in 1..Len(ind.genes)} :
               /\ Viavel(par)
               /\ Cardinality({k \in 1..Len(ind.genes) : ind.genes[k] = par}) >= 2
        /\ \E par \in {ind.genes[k] : k \in 1..Len(ind.genes)} :
               ~Alcancavel(NoDoBairro(par[1]), NoDoBairro(par[2]))

\* The pair with its ends exchanged.
Inverso(par) == <<par[2], par[1]>>

\* C15 (as the code has it): the cache is keyed by the ordered pair
\* (origin, destination): the entry of (a, b) is the route from the node of
\* a to the node of b, or the entry of a missing route when there is none;
\* (b, a) has an entry of its own, computed from b to a.
C15_ChaveOrdenada ==
    GrafoComNos =>
        \A par \in DOMAIN cache_rotas :
            IF Viavel(par)
            THEN /\ cache_rotas[par].geom # Nenhuma
                 /\ cache_rotas[par].geom[1] = NoDoBairro(par[1])
                 /\ cache_rotas[par].geom[Len(cache_rotas[par].geom)] = NoDoBairro(par[2])
            ELSE cache_rotas[par].geom = Nenhuma /\ cache_rotas[par].dist = Inf

\* C15 (as the specification states it): the cache is keyed by the
\* unordered pair, so it never holds an entry for (a, b) and another for
\* (b, a).
C15_ChaveSemOrdem ==
    \A par \in DOMAIN cache_rotas : par[1] # par[2] => Inverso(par) \notin DOMAIN cache_rotas

\* The cache holds (a, b) with a route and (b, a) without one.
C15_Witness ==
    /\ GrafoComNos
    /\ \E par \in DOMAIN cache_rotas :
        /\ Inverso(par) \in DOMAIN cache_rotas
        /\ cache_rotas[par].dist < Inf
        /\ cache_rotas[Inverso(par)].dist = Inf

\* A request for a pair the cache holds returns the stored entry and
\* leaves the cache as it is.
ServidoDoCache(par) ==
    rota_entre_bairros(cache_rotas, gdf_bairros, grafo, nos_grafo_multipoint, par[1], par[2])
        = [raised |-> "", cache |-> cache_rotas, dados |-> cache_rotas[par]]

\* C16: an entry written to cache_rotas is never removed nor overwritten by
\* a later step of the run (evaluation, mutation, crossover, selection,
\* extraction of the result), and a request for its pair returns the stored
\* entry without computing the route again.
C16_CacheNuncaInvalidado ==
    [][\A par \in DOMAIN cache_rotas :
           /\ par \in DOMAIN cache_rotas'
           /\ cache_rotas'[par] = cache_rotas[par]
           /\ ServidoDoCache(par)]_vars

\* The result was extracted after a generation that evaluated offspring,
\* with two pairs in the cache.
C16_Witness ==
    /\ pc = "extraido"
    /\ gen >= 1
    /\ Cardinality(DOMAIN cache_rotas) >= 2
    /\ Len(gdf_final) >= 1

\* A dominates B: no objective of A is greater and one is smaller.
Domina(A, B) ==
    /\ A.fitness[1] <= B.fitness[1]
    /\ A.fitness[2] <= B.fitness[2]
    /\ (A.fitness[1] < B.fitness[1] \/ A.fitness[2] < B.fitness[2])

NaFrente(ind) == \E p \in 1..Len(pareto_front) : pareto_front[p] = ind

\* The result of extrair_melhor_solucao is there.
Extraido == pc = "extraido" /\ erro = ""

\* C17: in the front extracted from the final population no individual
\* dominates another, and every individual of the population outside the
\* front is dominated by some individual of the population.
C17_FrenteNaoDominada ==
    Extraido =>
        /\ Len(pareto_front) >= 1
        /\ \A p \in 1..Len(pareto_front) : \E k \in 1..Len(pop) : pop[k] = pareto_front[p]
        /\ \A p, q \in 1..Len(pareto_front) : ~Domina(pareto_front[p], pareto_front[q])
        /\ \A k \in 1..Len(pop) :
               ~NaFrente(pop[k]) => \E j \in 1..Len(pop) : Domina(pop[j], pop[k])

\* A front of two individuals that trade length for coverage, extracted
\* after a generation.
C17_Witness ==
    /\ Extraido
    /\ gen >= 1
    /\ \E p, q \in 1..Len(pareto_front) :
        /\ pareto_front[p].fitness[1] < pareto_front[q].fitness[1]
        /\ pareto_front[p].fitness[2] > pareto_front[q].fitness[2]

\* An individual of the final population is outside the extracted front.
ForaDaFrente ==
    /\ Extraido
    /\ \E k \in 1..Len(pop) : ~NaFrente(pop[k])

\* The policies the specification names for the choice of one individual
\* of the front.
Politicas == {"min-cost", "max-coverage", "median"}

\* The number of individuals of the front whose total length is below
\* (above) that of ind.
MenoresQue(ind) ==
    Cardinality({p \in 1..Len(pareto_front) : pareto_front[p].fitness[1] < ind.fitness[1]})

MaioresQue(ind) ==
    Cardinality({p \in 1..Len(pareto_front) : pareto_front[p].fitness[1] > ind.fitness[1]})

\* ind is what the policy selects from the front.
EscolhaDa(politica, ind) ==
    /\ NaFrente(ind)
    /\ politica = "min-cost" =>
           \A p \in 1..Len(pareto_front) : ind.fitness[1] <= pareto_front[p].fitness[1]
    /\ politica = "max-coverage" =>
           \A p \in 1..Len(pareto_front) : ind.fitness[2] <= pareto_front[p].fitness[2]
    /\ politica = "median" =>
           /\ MenoresQue(ind) <= Len(pareto_front) \div 2
           /\ MaioresQue(ind) <= Len(pareto_front) \div 2

Rodando == pc \in {"geracao", "fim", "extraido"}

\* C19: a run of the optimizer on a graph with nodes meets no error, ends
\* after exactly n_geracoes generations, and the front extracted from its
\* final population is not empty.
C19_TerminaSemErro ==
    (GrafoComNos /\ Rodando) =>
        /\ erro = ""
        /\ gen <= n_geracoes
        /\ pc \in {"fim", "extraido"} => gen = n_geracoes
        /\ pc = "extraido" => Len(pareto_front) >= 1

\* The same for the runs whose population has two individuals or more.
TerminaComDoisOuMais ==
    n_populacao >= 2 => C19_TerminaSemErro

\* A run with a population of one met the error of random.sample.
ErroNaPopulacaoDeUm ==
    /\ GrafoComNos
    /\ pc = "geracao"
    /\ Len(pop) = 1
    /\ erro = "ValueError"

\* OtimizadorRotas was constructed.
Construido == pc \in {"otimizador", "geracao", "fim", "extraido"}

\* C20: on a graph without nodes the optimizer does not start: constructing
\* or running it ends at once in an error that names the empty graph,
\* before any population is created or evaluated.
C20_GrafoVazioNaoComeca ==
    (Construido /\ ~GrafoComNos) =>
        /\ erro = "EmptyGraphError"
        /\ pc = "otimizador"
        /\ pop = <<>>

\* On a graph without nodes the constructor succeeded, rodar_algoritmo
\* created the population, and the first evaluation ended in the
\* ValueError of nearest_points.
GrafoVazioAvaliado ==
    /\ ~GrafoComNos
    /\ pc = "geracao"
    /\ Len(pop) >= 1
    /\ erro = "ValueError"

(***************************************************************************)
(* Properties of the batch of routes to the hub                            *)
(***************************************************************************)
\* In batch l, row k is a polygon other than the named hub whose node has a
\* path of at least one edge to (IDA) or from (VOLTA) the node of the hub.
TemCaminhoAoCentro(l, k) ==
    /\ ~Pulado(k, l[1])
    /\ FonteLote(l, k) # AlvoLote(l, k)
    /\ Alcancavel(FonteLote(l, k), AlvoLote(l, k))

\* The rows of the layer gdf that are routes of row k of gdf_bairros.
RotasDoBairro(gdf, k) == {j \in 1..Len(gdf) : gdf[j].id[1] = k - 1}

\* The batch ended without an error on a graph with nodes.
LoteFeito == pc = "lote" /\ erro = "" /\ GrafoComNos

\* C21 (as the code has it): the loop of encontrar_caminho_minimo collects
\* in lista_caminhos exactly one route, from source to target, for every
\* polygonal row other than the named hub that has a path of at least one
\* edge, and none for any other row; without a hub name no row is skipped
\* as hub; what is returned is that list after filtrar_sublinhas, which
\* holds no route for a row whose route lies within the route of another.
C21_UmaRotaColetada ==
    LoteFeito =>
        \E l \in Lotes :
            /\ \A k \in 1..Len(gdf_bairros) :
                   /\ Cardinality(RotasDoBairro(lista_caminhos, k))
                          = IF TemCaminhoAoCentro(l, k) THEN 1 ELSE 0
                   /\ \A j \in RotasDoBairro(lista_caminhos, k) :
                          /\ lista_caminhos[j].geometry[1] = FonteLote(l, k)
                          /\ lista_caminhos[j].geometry[Len(lista_caminhos[j].geometry)]
                                 = AlvoLote(l, k)
                          /\ lista_caminhos[j].bairro_origem = gdf_bairros[k].name
            /\ l[1] = "" => \A k \in 1..Len(gdf_bairros) :
                   Pulado(k, l[1]) <=> gdf_bairros[k].geom_type \notin {"Polygon", "MultiPolygon"}
            /\ Len(gdf_rotas) = Cardinality(NaoContidas)
            /\ \A k \in 1..Len(gdf_rotas) : gdf_rotas[k] = lista_caminhos[Kesimo(NaoContidas, k)]

\* C21 (as the specification states it): the layer encontrar_caminho_minimo
\* returns holds exactly one route for every polygonal row other than the
\* named hub that has a path of at least one edge, and none for any other
\* row.
C21_UmaRotaDevolvida ==
    LoteFeito =>
        \E l \in Lotes :
            \A k \in 1..Len(gdf_bairros) :
                Cardinality(RotasDoBairro(gdf_rotas, k))
                    = IF TemCaminhoAoCentro(l, k) THEN 1 ELSE 0

\* A batch without a hub name, and one with it, is at hand with a row that
\* has a path and no route in the returned layer, next to the skipped point.
C21_Witness ==
    /\ LoteFeito
    /\ Len(gdf_rotas) >= 1
    /\ \E l \in Lotes : \E k, m \in 1..Len(gdf_bairros) :
        /\ TemCaminhoAoCentro(l, k)
        /\ RotasDoBairro(lista_caminhos, k) # {}
        /\ RotasDoBairro(gdf_rotas, k) = {}
        /\ gdf_bairros[m].geom_type = "Point"
        /\ RotasDoBairro(lista_caminhos, m) = {}

(***************************************************************************)
(* Properties of graph construction over any direction code                *)
(***************************************************************************)
\* Row k of the road layer holds a direction code that is not an integer.
DirecaoNaoInteira(k) == gdf_vias[k].tipos.DIR # "int"

\* Row k has at least two distinct coordinates.
TemGeometria(k) ==
    \E i, j \in 1..Len(gdf_vias[k].geometry) : gdf_vias[k].geometry[i] # gdf_vias[k].geometry[j]

\* criar_grafo_ponderado has run on a road layer with typed columns.
GrafoTentado == pc = "grafo" /\ \A k \in 1..Len(gdf_vias) : "tipos" \in DOMAIN gdf_vias[k]

\* C22 (as the code has it): graph construction raises ValueError and
\* returns no graph exactly when some road with a valid geometry holds a
\* direction code that is not an int; a road whose geometry is not valid
\* is skipped before its direction code is looked at, whatever the code.
C22_DirecaoInvalidaComGeometria ==
    GrafoTentado =>
        /\ erro \in {"", "ValueError"}
        /\ erro = "ValueError" <=>
               \E k \in 1..Len(gdf_vias) : TemGeometria(k) /\ DirecaoNaoInteira(k)
        /\ erro # "" => grafo = GrafoVazio

\* C22 (as the specification states it): a road whose direction code is
\* not an integer always ends graph construction in an error, with no graph
\* returned; it is never skipped.
C22_DirecaoInvalidaSempreFatal ==
    GrafoTentado =>
        ((\E k \in 1..Len(gdf_vias) : DirecaoNaoInteira(k)) =>
            erro # "" /\ grafo = GrafoVazio)

\* A graph with edges was returned for a layer holding a road without a
\* valid geometry whose direction code is missing.
C22_Witness ==
    /\ GrafoTentado
    /\ erro = ""
    /\ Len(grafo.edges) >= 1
    /\ \E k \in 1..Len(gdf_vias) :
        /\ ~TemGeometria(k)
        /\ gdf_vias[k].tipos.DIR = "NoneType"

\* Construction was refused for a road with a geometry and the code "1".
DirecaoTextoRecusada ==
    /\ GrafoTentado
    /\ erro = "ValueError"
    /\ \E k \in 1..Len(gdf_vias) : TemGeometria(k) /\ gdf_vias[k].tipos.DIR = "str"

\* The graph of a road layer with typed columns was built without error.
GrafoAceito == GrafoTentado /\ erro = ""

\* The edges road k left between the ends of its segment i, either way.
ArestasDoSegmento(k, i) ==
    {j \in 1..Len(grafo.edges) :
        /\ grafo.edges[j].via_id = gdf_vias[k].ID
        /\ {grafo.edges[j].u, grafo.edges[j].v}
               = {gdf_vias[k].geometry[i], gdf_vias[k].geometry[i + 1]}}

\* The graph holds no self-loop and no edge of length zero.
SemLacoNemArestaNula ==
    \A e \in Arestas : e.u # e.v /\ e.original_weight > 0

\* C25: for every road graph construction accepts, every segment of
\* non-zero length yields exactly one or exactly two directed edges by the
\* direction code, and a segment of zero length yields none: the graph has
\* no self-loop and no edge of length zero.
C25_UmaOuDuasArestas ==
    GrafoAceito =>
        /\ SemLacoNemArestaNula
        /\ \A k \in 1..Len(gdf_vias) :
               TemGeometria(k) =>
                   \A i \in 1..(Len(gdf_vias[k].geometry) - 1) :
                       gdf_vias[k].geometry[i] # gdf_vias[k].geometry[i + 1] =>
                           Cardinality(ArestasDoSegmento(k, i)) \in {1, 2}

\* The same for the roads whose code is -1, 0 or 1; the zero-length part
\* holds for all.
UmaOuDuasArestasDosCodigosConhecidos ==
    GrafoAceito =>
        /\ SemLacoNemArestaNula
        /\ \A k \in 1..Len(gdf_vias) :
               (TemGeometria(k) /\ gdf_vias[k].DIR \in {-1, 0, 1}) =>
                   \A i \in 1..(Len(gdf_vias[k].geometry) - 1) :
                       gdf_vias[k].geometry[i] # gdf_vias[k].geometry[i + 1] =>
                           Cardinality(ArestasDoSegmento(k, i))
                               = IF gdf_vias[k].DIR = 0 THEN 2 ELSE 1

\* A road of code 2 with a valid geometry was accepted and the graph has
\* no edge.
ViaAceitaSemArestas ==
    /\ GrafoAceito
    /\ Len(grafo.edges) = 0
    /\ \E k \in 1..Len(gdf_vias) : TemGeometria(k) /\ gdf_vias[k].DIR = 2

(***************************************************************************)
(* Properties of the nearest-node lookup                                   *)
(***************************************************************************)
\* The square of the distance between two points.
DistanciaAoQuadrado(p, q) ==
    (p[1] - q[1]) * (p[1] - q[1]) + (p[2] - q[2]) * (p[2] - q[2])

NosConsultados == {nos_grafo_multipoint[k] : k \in 1..Len(nos_grafo_multipoint)}

ConsultaSemNos ==
    /\ pc = "no_encontrado"
    /\ NosConsultados = {}
    /\ erro = "ValueError"

(***************************************************************************)
(* Properties of the calls on a ModeloReset                                *)
(***************************************************************************)
\* The step is a call of set_polos_planejados on a loaded neighbourhood layer.
PolosSobreCamada ==
    /\ pc' = "polos"
    /\ pc \in EstadosDoModelo
    /\ erro = ""
    /\ camadas["bairros"].tipo = "GeoDataFrame"

\* C24: a call set_polos_planejados(names) on a non-empty neighbourhood layer
\* leaves every row "Planejado" if its name is one of names and "Nenhum"
\* otherwise, whatever class the row had, and touches nothing else; on an
\* empty layer the call changes nothing.
C24_PolosRedefinidos ==
    [][PolosSobreCamada =>
        /\ erro' = ""
        /\ IF Len(camadas["bairros"].linhas) = 0 THEN camadas' = camadas
           ELSE /\ DOMAIN camadas' = DOMAIN camadas
                /\ \A nome \in DOMAIN camadas \ {"bairros"} : camadas'[nome] = camadas[nome]
                /\ camadas'["bairros"].crs = camadas["bairros"].crs
                /\ Len(camadas'["bairros"].linhas) = Len(camadas["bairros"].linhas)
                /\ \A k \in 1..Len(camadas["bairros"].linhas) :
                     LET antes == camadas["bairros"].linhas[k]
                         depois == camadas'["bairros"].linhas[k]
                     IN  /\ depois.tipo_polo = IF antes.name \in args'.polos
                                               THEN "Planejado" ELSE "Nenhum"
                         /\ depois.name = antes.name
                         /\ depois.centroid = antes.centroid]_vars

\* A call with the names "Norte " and "Sul" on the layer of three rows has
\* reset the row " Centro ", loaded as "Planejado", and marked the other two.
C24_Witness ==
    /\ pc = "polos"
    /\ erro = ""
    /\ args.polos = {"Norte ", "Sul"}
    /\ Len(camadas["bairros"].linhas) = 3
    /\ camadas["bairros"].linhas[1].name = " Centro "
    /\ camadas["bairros"].linhas[1].tipo_polo = "Nenhum"
    /\ camadas["bairros"].linhas[2].tipo_polo = "Planejado"
    /\ camadas["bairros"].linhas[3].tipo_polo = "Planejado"

\* A call on the empty layer, and a call on the object that holds None as
\* its neighbourhood layer, which fails.
PolosSobreCamadaVazia ==
    /\ pc = "polos"
    /\ erro = ""
    /\ camadas["bairros"].tipo = "GeoDataFrame"
    /\ Len(camadas["bairros"].linhas) = 0

PolosSemCamada ==
    /\ pc = "polos"
    /\ erro = "AttributeError"
    /\ camadas["bairros"].tipo = "NoneType"

\* The layer was stored by its loader.
Carregada(nome) == nome \in DOMAIN camadas /\ camadas[nome].tipo = "GeoDataFrame"

\* The step is a call of gerar_rotas_otimizadas.
RotasPedidas ==
    /\ pc' = "rotas"
    /\ pc \in EstadosDoModelo
    /\ erro = ""

\* C30: a call of gerar_rotas_otimizadas made before the layers bairros, vias
\* and pontos_articulacao were all loaded raises the ValueError of the
\* missing layers and leaves camadas and grafo as they were.
C30_SemCamadasErroDeValor ==
    [][(RotasPedidas /\ ~(\A nome \in camadas_necessarias : Carregada(nome))) =>
        /\ erro' = ErroCamadasNecessarias
        /\ camadas' = camadas
        /\ grafo' = grafo]_vars

\* What the guard does give: the ValueError, with camadas and grafo left
\* alone, exactly when one of the three names is no key of camadas.
GuardaDasChaves ==
    [][RotasPedidas =>
        /\ erro' = ErroCamadasNecessarias <=> ~(camadas_necessarias \subseteq DOMAIN camadas)
        /\ erro' = ErroCamadasNecessarias => camadas' = camadas /\ grafo' = grafo]_vars

\* A freshly constructed ModeloReset holds none of the three layers as a key.
ModeloNovoSemChaves ==
    pc = "modelo" => DOMAIN camadas \cap camadas_necessarias = {}

\* A call that succeeds leaves a graph with nodes and both route layers,
\* computed over that graph.
RotasSobreOGrafo ==
    (pc = "rotas" /\ erro = "") =>
        /\ Len(grafo.nodes) > 0
        /\ {"caminhos_volta", "caminhos_ida", "rotas_concatenadas"} \subseteq DOMAIN camadas
        /\ \A sentido \in Sentidos :
             camadas[IF sentido = "IDA" THEN "caminhos_ida" ELSE "caminhos_volta"].linhas
                 = encontrar_caminho_minimo(camadas["bairros"].linhas, grafo,
                                            args.bairro_central, sentido).rotas

\* The call made with roads and articulation points loaded and the
\* neighbourhood layer never loaded: it fails on the None of the constructor.
RotasSemBairros ==
    /\ pc = "rotas"
    /\ erro = "AttributeError"
    /\ camadas["bairros"].tipo = "NoneType"
    /\ Carregada("vias")
    /\ Carregada("pontos_articulacao")

\* A call that succeeded with a route in each direction.
RotasNosDoisSentidos ==
    /\ pc = "rotas"
    /\ erro = ""
    /\ Len(camadas["caminhos_volta"].linhas) > 0
    /\ Len(camadas["caminhos_ida"].linhas) > 0

\* A call that stopped after the filtered roads and the graph were stored.
RotasSemGrafo ==
    /\ pc = "rotas"
    /\ erro = "Exception"
    /\ "vias_filtradas" \in DOMAIN camadas

(***************************************************************************)
(* Properties of the genes of the individuals                              *)
(***************************************************************************)
\* C26: every gene of every individual is a pair of two different indices of
\* the neighbourhood layer: as gerar_individuo builds it, and after any
\* sequence of mutations and two-point crossovers.
C26_GenesDePontasDistintas ==
    \A ind \in Individuos :
        \A k \in 1..Len(ind.genes) :
            /\ Len(ind.genes[k]) = 2
            /\ ind.genes[k][1] \in indices_bairros(gdf_bairros)
            /\ ind.genes[k][2] \in indices_bairros(gdf_bairros)
            /\ ind.genes[k][1] # ind.genes[k][2]

\* The genes of the individual that no toolbox.individual() draws.
GenesNovos(ind) == {k \in 1..Len(ind.genes) : ind.genes[k] \in GenesDoToolbox}

\* The genes of the individual equal to gene.
GenesIguais(ind, gene) == {k \in 1..Len(ind.genes) : ind.genes[k] = gene}

\* A mutation has drawn a gene for the child of a crossover, which holds
\* genes of both patterns of the initial draw.
C26_Witness ==
    /\ pc = "mutado"
    /\ gen >= 1
    /\ args.r >= LimiarRemover
    /\ GenesNovos(offspring[1]) # {}
    /\ GenesIguais(offspring[1], <<1, 2>>) # {}
    /\ GenesIguais(offspring[1], <<2, 3>>) # {}

(***************************************************************************)
(* Properties of what the filter of sub-paths keeps covered                *)
(***************************************************************************)
\* The route is inside the 0.01 buffer of a route of the layer returned.
CobertaPeloFiltrado(rota) ==
    \E k \in 1..Len(gdf_rotas) : within_buffer(rota.geometry, gdf_rotas[k].geometry)

\* C27: filtrar_sublinhas loses no coverage: every route handed to it lies
\* inside the buffer of a route it returns, so that of two routes of the
\* same geometry one is kept.
C27_CoberturaMantida ==
    pc = "filtrado" =>
        \A i \in 1..Len(lista_caminhos) : CobertaPeloFiltrado(lista_caminhos[i])

\* What the filter does keep covered: the routes that lie in the buffer of
\* no route of another index are returned themselves.
CoberturaDasNaoContidas ==
    pc = "filtrado" =>
        \A i \in NaoContidas : \E k \in 1..Len(gdf_rotas) : gdf_rotas[k] = lista_caminhos[i]

\* The filter ran on two routes of the same geometry and returned neither.
DuasIguaisRemovidas ==
    /\ pc = "filtrado"
    /\ Len(lista_caminhos) = 2
    /\ lista_caminhos[1].geometry = lista_caminhos[2].geometry
    /\ gdf_rotas = <<>>

\* A batch of routes to the hub in which two neighbourhoods snapped to the
\* same node, and the layer returned covers the route of neither.
LoteSemOsVizinhos ==
    /\ LoteFeito
    /\ \E i, j \in 1..Len(lista_caminhos) :
         /\ i # j
         /\ lista_caminhos[i].geometry = lista_caminhos[j].geometry
         /\ ~CobertaPeloFiltrado(lista_caminhos[i])

(***************************************************************************)
(* Properties of the route cache against an evaluator without one          *)
(***************************************************************************)
\* What an evaluator without a cache computes for a pair: the route afresh.
DadosSemCache(par) ==
    dados_rota(gdf_bairros, grafo, nos_grafo_multipoint, par[1], par[2]).dados

\* The pairs among the genes.
ParesDe(genes) == {genes[k] : k \in 1..Len(genes)}

\* What an evaluator without a cache computes for each pair requested so far.
RotasSemCache == [par \in DOMAIN cache_rotas |-> DadosSemCache(par)]

\* The sum over the pairs of S, each counted as often as it occurs in
\* genes, of the length in dados, 100000 (in centimetres) for a pair
\* without a route.
RECURSIVE DistanciaSemCache(_, _, _)
DistanciaSemCache(genes, S, dados) ==
    IF S = {} THEN 0
    ELSE LET par == CHOOSE x \in S : TRUE
         IN  Cardinality({k \in 1..Len(genes) : genes[k] = par})
                 * (IF dados[par].dist = Inf THEN 100000 * 100 ELSE dados[par].dist)
             + DistanciaSemCache(genes, S \ {par}, dados)

\* The fitness of the genes computed from dados, the routes computed afresh.
AvaliacaoSemCache(genes, dados) ==
    <<DistanciaSemCache(genes, ParesDe(genes), dados),
      Len(gdf_bairros) - Cardinality(UNION {dados[par].bairros : par \in ParesDe(genes)})>>

\* The genes of melhor_ind that have a route in dados, in order.
GenesComRota(dados) ==
    SelectSeq([k \in 1..Len(melhor_ind.genes) |-> <<k, melhor_ind.genes[k]>>],
              LAMBDA kg : dados[kg[2]].geom # Nenhuma)

\* The cache, the fitness values and the extracted rows are those of dados.
TransparenteCom(dados) ==
    /\ cache_rotas = dados
    /\ \A ind \in Individuos :
           ind.fitness # <<>> =>
               /\ ParesDe(ind.genes) \subseteq DOMAIN dados
               /\ ind.fitness = AvaliacaoSemCache(ind.genes, dados)
    /\ (pc = "extraido" /\ erro = "") =>
           /\ ParesDe(melhor_ind.genes) \subseteq DOMAIN dados
           /\ Len(gdf_final) = Len(GenesComRota(dados))
           /\ \A k \in 1..Len(gdf_final) :
                gdf_final[k] = linha_final(GenesComRota(dados)[k][1] - 1,
                                           dados[GenesComRota(dados)[k][2]])

\* C28: the cache is transparent: in every state of a run on a graph with
\* nodes, whatever was evaluated before and in which order, every entry of
\* cache_rotas is what computing the route afresh gives (distance, touched
\* neighbourhoods, geometry or none), so a request answers the same with
\* and without the cache; every fitness is the one an evaluator computes
\* from the routes computed afresh; and the rows of the extracted result
\* are those routes.
C28_CacheTransparente ==
    (GrafoComNos /\ pc \in {"geracao", "fim", "extraido"}) => TransparenteCom(RotasSemCache)

\* After a generation whose offspring were evaluated on a cache the first
\* evaluation had filled, the result was extracted with a route and the
\* cache holds a pair with a route and a pair without one.
C28_Witness ==
    /\ GrafoComNos
    /\ pc = "extraido"
    /\ erro = ""
    /\ gen >= 1
    /\ Len(gdf_final) >= 1
    /\ \E par \in DOMAIN cache_rotas : cache_rotas[par].dist = Inf
    /\ \E par \in DOMAIN cache_rotas : cache_rotas[par].dist < Inf

(***************************************************************************)
(* Properties of the generations of eaMuPlusLambda                         *)
(***************************************************************************)
\* The step closes a generation: the offspring were evaluated and the next
\* population was selected.
GeracaoFechada == pc = "geracao" /\ gen' = gen + 1

\* The least value of objective f over the individuals of inds.
MenorValor(inds, f) ==
    CHOOSE v \in {inds[k].fitness[f] : k \in 1..Len(inds)} :
        \A k \in 1..Len(inds) : v <= inds[k].fitness[f]

\* The individual is, genes and fitness, a parent or one of the offspring
\* (whose fitness the step computes).
DosPaisOuDosFilhos(ind) ==
    \/ \E k \in 1..Len(pop) : pop[k].genes = ind.genes /\ pop[k].fitness = ind.fitness
    \/ \E k \in 1..Len(offspring) :
          /\ offspring[k].genes = ind.genes
          /\ offspring[k].fitness \in {<<>>, ind.fitness}

\* Every generation leaves n_populacao evaluated individuals taken from
\* the parents and the offspring.
PopulacaoDosPaisEFilhos ==
    [][GeracaoFechada =>
        /\ Len(pop') = n_populacao
        /\ \A k \in 1..Len(pop') : pop'[k].fitness # <<>> /\ DosPaisOuDosFilhos(pop'[k])]_vars

\* The least f1 of the population does not grow over a generation.
MenorDistanciaMantida ==
    [][GeracaoFechada => MenorValor(pop', 1) <= MenorValor(pop, 1)]_vars

\* C29: the loop is elitist: every generation leaves exactly n_populacao
\* individuals chosen from parents and offspring, and neither the least f1
\* nor the least f2 of the population grows from one generation to the next.
C29_Elitista ==
    [][GeracaoFechada =>
        /\ Len(pop') = n_populacao
        /\ \A k \in 1..Len(pop') : DosPaisOuDosFilhos(pop'[k])
        /\ MenorValor(pop', 1) <= MenorValor(pop, 1)
        /\ MenorValor(pop', 2) <= MenorValor(pop, 2)]_vars

\* A generation was closed over a population of two or more whose
\* individuals differ in fitness.
GeracaoComEscolha ==
    /\ pc = "geracao"
    /\ erro = ""
    /\ gen >= 1
    /\ Len(pop) >= 2
    /\ \E i, j \in 1..Len(pop) : pop[i].fitness # pop[j].fitness

=============================================================================
